---- MODULE Spec2Model ----
(***************************************************************************)
(* Model of the submission pipeline of ImageFromImage:                     *)
(*   Manager.processImageBatch   (src/src/services/gemini_service.js)      *)
(*   ChatGptHandler.processImage (src/unnamed/part_002)                    *)
(*   ChatGptService.checkPreviousSuccessAndSubmit (src/unnamed/part_003)   *)
(*   GeminiHandler.processImage  (src/unnamed/part_003)                    *)
(*   ExifWriter.getAppData / incrementCounter (src/unnamed/part_004)       *)
(* One action per awaited step of the code.  The browser page and the      *)
(* exiftool process are the environment: every wait on them either         *)
(* succeeds or raises, chosen with \E.                                     *)
(***************************************************************************)
EXTENDS Integers, Sequences, FiniteSets, TLC

----------------------------------------------------------------------------
(* Bounds of the model *)

\* largest number of image files in one batch
MaxUnits == 3
\* successCount found in the EXIF tag of a file that an earlier run succeeded on
StoredSuccess == 2
\* largest number of generated images seen in the latest response block
MaxImages == 1

Units == 1..MaxUnits

\* names of subdirectories that can exist under options.input and under
\* options.userDataDir; also the largest options.concurrency
MaxDirs == 2
\* image files in the subdirectories of options.input, all together
MaxPairFiles == 2

\* a directory name is a number: its rank in the order String.prototype.sort
\* gives the names
Dirs == 1..MaxDirs

----------------------------------------------------------------------------
(* Program constants *)

\* a retry budget of two
maxRetriesTwo == 1 + 1

\* part_002:40  const maxRetries = 1
maxRetries == 1

\* config.js:13-14  EXIF_SUCCESS_KEY / EXIF_FAILED_KEY
exifSuccessKey == "successCount"
exifFailedKey == "failedCount"

\* a JS value that is null / undefined / true / false
Null == "null"
Undefined == "undefined"
True == "true"
False == "false"

\* JS truthiness of such a value
Truthy(v) == v = True

\* the value of a JS boolean expression
JsBool(b) == IF b THEN True ELSE False

----------------------------------------------------------------------------
VARIABLES
    platform,       \* options.platform: which handler handlerFactory.getHandler built
    skipIfCreated,  \* options.skipIfCreated
    selectorsOk,    \* options.selectors[platform] has what the service constructor requires
    numImages,      \* imagePaths.length; imagePaths is <<1, ..., numImages>>
    exif,           \* the counter record stored in each file's EXIF tag
    summary,        \* processImageBatch: summary
    previousImagePath,              \* processImageBatch local (0 is null)
    successStatusForPreviousImage,  \* processImageBatch local
    fileIndex,      \* processImageBatch local; imagePaths[fileIndex] is currentImagePath
    attemptResult,  \* processImageBatch local: what handler.processImage returned
    existingCount,  \* processImageBatch local: existingSuccessCount (-1: not in scope)
    pc,             \* the statement the session's control flow is at
    retryAttempt,   \* ChatGptHandler.processImage local
    submitted,      \* ChatGptHandler.processImage local
    successStatusOfPrevious,  \* ChatGptHandler.processImage local
    successOfPrevious,        \* checkPreviousSuccessAndSubmit local
    hErr,           \* the error caught by ChatGptHandler.processImage's catch
    rec,            \* history, per unit: what was done to it in this batch
    call,           \* history of the handler.processImage call of the current unit
    runPc,          \* the statement runCli / Manager.run / run...Mode is at
    exitCode,       \* process.exitCode (0 while it is not set)
    recurse,        \* options.recurse
    concurrency,    \* options.concurrency
    inputDirs,      \* the subdirectories of options.input on disk (names)
    profileDirs,    \* the subdirectories of options.userDataDir on disk (names)
    files,          \* the number of image files in each subdirectory of options.input
    inputSubDirs,   \* runRecursiveMode local
    userDataSubDirs, \* runRecursiveMode local
    numPairs,       \* runRecursiveMode local
    tasks,          \* runRecursiveMode: the task of each pair, with its locals
    aggregateSummary, \* runRecursiveMode local
    resultSummary,  \* runSingleMode local
    browser,        \* browser_factory.js: the module-level browser
    sharedExifWriter, \* the ExifWriter runCli builds (Manager.sharedExifWriter)
    logged,         \* the run summary the logger has emitted, if any
    touched,        \* history, per input directory: image files handed to a pipeline
    optPlatform,    \* options.platform as getHandler is given it
    optUrl,         \* options.url
    optGeminiUrl,   \* options.geminiUrl
    optChatgptUrl,  \* options.chatgptUrl
    handler,        \* session start: the local handler
    initialUrl,     \* session start: the local initialUrl
    startPc,        \* session start: the statement it is at
    increment,      \* ExifWriter: the call of incrementCounter under way or made last
    factoryBrowser, \* browser_factory.js: the module-level browser (0 is null)
    browsers,       \* browser_factory.js: what became of each browser puppeteer launched
    calls           \* browser_factory.js: the call each caller has under way

vars == <<platform, skipIfCreated, selectorsOk, numImages, exif, summary,
          previousImagePath, successStatusForPreviousImage, fileIndex,
          attemptResult, existingCount, pc, retryAttempt, submitted, successStatusOfPrevious,
          successOfPrevious, hErr, rec, call,
          runPc, exitCode, recurse, concurrency, inputDirs, profileDirs, files,
          inputSubDirs, userDataSubDirs, numPairs, tasks, aggregateSummary,
          resultSummary, browser, sharedExifWriter, logged, touched,
          optPlatform, optUrl, optGeminiUrl, optChatgptUrl, handler, initialUrl,
          startPc, increment, factoryBrowser, browsers, calls>>

managerVars == <<summary, previousImagePath, successStatusForPreviousImage,
                 fileIndex, attemptResult, existingCount>>
handlerVars == <<retryAttempt, submitted, successStatusOfPrevious,
                 successOfPrevious, hErr>>
\* the session start taken alone: handlerFactory.getHandler and the first
\* navigation, with the options they read
startVars == <<optPlatform, optUrl, optGeminiUrl, optChatgptUrl, handler, initialUrl,
               startPc>>
\* ExifWriter.incrementCounter taken alone
counterVars == <<increment>>
\* browser_factory.js taken alone
factoryVars == <<factoryBrowser, browsers, calls>>
optionVars == <<platform, skipIfCreated, selectorsOk, numImages, startVars,
                counterVars, factoryVars>>
recursiveVars == <<concurrency, inputDirs, profileDirs, files, inputSubDirs, userDataSubDirs,
                   numPairs, tasks, aggregateSummary, touched>>
runVars == <<runPc, exitCode, recurse, resultSummary, browser, sharedExifWriter,
             logged, recursiveVars>>
\* what no step of processImageBatch or of a handler assigns
configVars == <<optionVars, runVars>>

currentImagePath == fileIndex

----------------------------------------------------------------------------
(* Values *)

ZeroSummary ==
    [processed |-> 0, skipped |-> 0, success |-> 0, failed |-> 0,
     submitErrors |-> 0, exifErrors |-> 0]

NoResult ==
    [thrown |-> FALSE, submitted |-> Undefined,
     successStatusOfPrevious |-> Undefined, success |-> Undefined]

\* the history of one unit before anything happened to it
NoRec ==
    [skipped |-> 0,         \* times the skip branch was taken for it
     invoked |-> 0,         \* calls of handler.processImage for it
     returned |-> FALSE,    \* that call has returned (or thrown)
     result |-> NoResult,   \* what handler.processImage returned
     submitErrors |-> 0,    \* summary.submitErrors++ done for it
     writes |-> 0,          \* incrementCounter calls for it
     writeKey |-> Null,     \* keyToIncrement of that call
     writeIter |-> 0,       \* fileIndex when that call was made
     writeAt |-> Null,      \* "loop" (lines 550-557) or "flush" (606-620)
     writeOk |-> Null,      \* what that call returned (exifUpdated)
     delays |-> 0]          \* waits of options.waitTimeout taken after it (line 601)

\* handlePotentialCaptcha has not run, or the handler has gone on since
GuardNotRun ==
    [race |-> "none",       \* what settled Promise.race first (part_001:58)
     element |-> FALSE,     \* page.$ found a captcha element (part_001:65)
     paused |-> FALSE,      \* the manualSolveWaitTimeMs sleep was taken (part_001:73)
     reprobe |-> "none",    \* the waitForSelector of part_001:78: "found" or "timeout"
     thrown |-> FALSE,      \* an error left handlePotentialCaptcha
     returned |-> Null]     \* the boolean handlePotentialCaptcha returned

\* the history of one call of handler.processImage before it began
NoCall ==
    [attempts |-> 0,        \* iterations of the handler's retry loop (attempts)
     gateTimeouts |-> 0,    \* attempts that raised the submit-button timeout
     firstGate |-> FALSE,   \* the first attempt raised the submit-button timeout
     reloads |-> 0,         \* page.reload calls
     clicked |-> FALSE,     \* the submit click of the last attempt succeeded
     firstErr |-> "none",   \* how the first attempt failed, if it did
     lastErr |-> "none",    \* how the attempt that is running or ran last failed
     reloadFailed |-> FALSE, \* page.reload threw
     steps |-> <<>>,        \* the steps the attempt that is running or ran last took
     count |-> -1,          \* currentImageCount as that attempt read it (-1: not read)
     guard |-> GuardNotRun] \* what handlePotentialCaptcha did, until the handler goes on

NoData == [successCount |-> 0, failedCount |-> 0]

\* the ExifWriter instances: the one runCli builds and hands to the Manager
\* (this.sharedExifWriter, gemini_service.js:322) is SharedStore, the one task
\* i builds is i, and NoStore stands for no instance
SharedStore == 0
NoStore == 0 - 1

\* a pair index for which runRecursiveMode created no task; the locals of a
\* task as lines 370-375 set them
NoTask ==
    [pc |-> "none",               \* where the task is
     input |-> 0,                 \* currentInputPath
     profile |-> 0,               \* currentUserDataPath
     browserForPair |-> Null,     \* null, "open" or "closed"
     exifWriterForPair |-> Null,  \* null, "live" or "ended"
     store |-> NoStore,           \* which ExifWriter instance exifWriterForPair is
     numFiles |-> 0,              \* imagePaths.length
     fileIndex |-> 0,             \* processImageBatch: images taken so far
     pending |-> Null,            \* processImageBatch: successStatusForPreviousImage
     summary |-> ZeroSummary,     \* processImageBatch: summary
     pairResult |-> ZeroSummary,
     failed |-> FALSE]            \* history: the catch of line 422 was entered

----------------------------------------------------------------------------
(* ExifWriter (part_004) *)

\* _readAppDataInternal: the app data of the tag, or null when the tag is
\* absent or exiftool.read raised (lines 198-231)
readAppDataInternal(filePath, readOk) ==
    IF readOk THEN [isNull |-> FALSE, data |-> exif[filePath]]
    ELSE [isNull |-> TRUE, data |-> NoData]

\* getAppData (lines 238-243)
getAppData(filePath, readOk) == readAppDataInternal(filePath, readOk)

\* incrementCounter, lines 261-266: merge what was read over the defaults and
\* increment the key
incrementedData(appData, keyToIncrement) ==
    LET currentAppData == IF appData.isNull THEN NoData ELSE appData.data
    IN  [currentAppData EXCEPT ![keyToIncrement] = @ + 1]

\* incrementCounter, lines 275-285: the tag after exiftool.write, which either
\* succeeds (returns true) or raises (returns false, file unchanged)
exifAfterIncrement(filePath, keyToIncrement, readOk, writeOk) ==
    IF writeOk
    THEN [exif EXCEPT ![filePath] =
              incrementedData(readAppDataInternal(filePath, readOk), keyToIncrement)]
    ELSE exif

----------------------------------------------------------------------------
(* Manager.processImageBatch (gemini_service.js 538-623) *)

\* the null test of line 550 inverted
PersistDueInverted(prev, status) == prev # 0 /\ status = Null

\* line 550: previousImagePath && successStatusForPreviousImage !== null
PersistDue(prev, status) == prev # 0 /\ status # Null

\* lines 607-613 left out: the last image of the batch is never written
FinalPersistNever(prev, status) == FALSE

\* line 607: the same condition after the loop
FinalPersistDue(prev, status) == prev # 0 /\ status # Null

\* line 614: the status of the last processed image is undetermined
FlushUndetermined(prev, status, s) == prev # 0 /\ status = Null /\ s.processed > 0

\* line 553 / 610
KeyToIncrement(status) == IF Truthy(status) THEN exifSuccessKey ELSE exifFailedKey

\* line 555-556 / 612-613: a failed write counted as a failed unit as well
TallyPersistFailureCounted(s, status, exifUpdated) ==
    IF exifUpdated
    THEN IF Truthy(status) THEN [s EXCEPT !.success = @ + 1]
                           ELSE [s EXCEPT !.failed = @ + 1]
    ELSE [s EXCEPT !.exifErrors = @ + 1, !.failed = @ + 1]

\* line 555-556 / 612-613: tally the result of incrementCounter
TallyPersist(s, status, exifUpdated) ==
    IF exifUpdated
    THEN IF Truthy(status) THEN [s EXCEPT !.success = @ + 1]
                           ELSE [s EXCEPT !.failed = @ + 1]
    ELSE [s EXCEPT !.exifErrors = @ + 1]

\* line 564: existingData?.[exifSuccessKey] || 0
existingSuccessCount(existingData) ==
    IF existingData.isNull THEN 0 ELSE existingData.data.successCount

\* line 565 with the flag test inverted
ShouldSkipFlagInverted(count, skipFlag) == count > 0 /\ ~skipFlag

\* line 565
ShouldSkip(count, skipFlag) == count > 0 /\ skipFlag

\* line 567 left out
MarkSkippedForgotten(s) == s

\* line 567
MarkSkipped(s) == [s EXCEPT !.skipped = @ + 1]

\* line 577
MarkProcessed(s) == [s EXCEPT !.processed = @ + 1]

\* line 581: attemptResult && attemptResult.submitted !== undefined
ExpectedResult(r) == ~r.thrown /\ r.submitted # Undefined

\* lines 582-592 keeping a status only when the image was submitted
StatusOnlyWhenSubmitted(r) ==
    IF ~r.thrown /\ r.submitted = True THEN r.successStatusOfPrevious ELSE Null

\* lines 582, 587, 592: the status kept for the next iteration
StatusFromResult(r) ==
    IF ExpectedResult(r) THEN r.successStatusOfPrevious ELSE False

\* line 584 testing successStatusOfPrevious instead of submitted
SubmitErrorFromPrevious(r) ==
    IF ~r.thrown /\ r.submitted # Undefined
    THEN r.successStatusOfPrevious # True ELSE TRUE

\* lines 584, 588, 593: whether summary.submitErrors++ is executed
SubmitErrorFromResult(r) ==
    IF ExpectedResult(r) THEN ~Truthy(r.submitted) ELSE TRUE

\* line 596 (finally): the path kept for the next iteration's EXIF update
NextPrevious(current) == current

\* the record of the write issued for unit u
----------------------------------------------------------------------------
(* The session start: handlerFactory.getHandler and the first navigation *)

\* A JS string is the sequence of its pieces; no piece contains the start of
\* another. An option is a string or undefined.
NoString == [given |-> FALSE, text |-> <<>>]
Str(s) == [given |-> TRUE, text |-> s]

\* String.prototype.toLowerCase, piece by piece
LowerPiece(t) ==
    CASE t = "Gemini" -> "gemini"
      [] t = "GEMINI" -> "gemini"
      [] t = "ChatGPT" -> "chatgpt"
      [] t = "HTTPS://" -> "https://"
      [] t = "Gemini.Google.com" -> "gemini.google.com"
      [] t = "ChatGPT.com" -> "chatgpt.com"
      [] OTHER -> t
toLowerCase(s) == [i \in 1..Len(s) |-> LowerPiece(s[i])]

\* String.prototype.includes for a needle that is one piece
includes(s, needle) == \E i \in 1..Len(s) : s[i] = needle

\* JS truthiness of an optional string: undefined and '' are falsy
TruthyString(v) == v.given /\ v.text # <<>>

\* a || b
JsOr(a, b) == IF TruthyString(a) THEN a ELSE b

\* config.js 101-103
DefaultGeminiUrl == Str(<<"https://", "gemini.google.com", "/app">>)
DefaultChatgptUrl == Str(<<"https://", "chatgpt.com", "/">>)

\* the values tried for options.platform and options.url
PlatformFlags ==
    {NoString, Str(<<>>), Str(<<"gemini">>), Str(<<"Gemini">>), Str(<<"GEMINI">>),
     Str(<<"chatgpt">>), Str(<<"ChatGPT">>), Str(<<"seaart">>)}
Urls ==
    {NoString, Str(<<>>), DefaultGeminiUrl, DefaultChatgptUrl,
     Str(<<"HTTPS://", "Gemini.Google.com", "/app">>),
     Str(<<"https://", "ChatGPT.com", "/c/", "1">>),
     Str(<<"https://", "chat.openai.com", "/">>),
     Str(<<"https://", "example.com", "/">>),
     Str(<<"https://", "example.com", "/?next=", "chatgpt.com", "&from=", "gemini.google.com">>)}

\* getHandler line 16: options.platform?.toLowerCase()
PlatformOf(p) == IF p.given THEN Str(toLowerCase(p.text)) ELSE NoString

\* getHandler line 18: options.url || options.geminiUrl || options.chatgptUrl || ''
UrlOf(u, g, c) == JsOr(JsOr(JsOr(u, g), c), Str(<<>>))

\* getHandler reading the URL before the platform flag
getHandlerUrlFirst(p, u, g, c) ==
    LET lowerCaseUrl == toLowerCase(UrlOf(u, g, c).text)
    IN  IF includes(lowerCaseUrl, "gemini.google.com") THEN "GeminiHandler"
        ELSE IF includes(lowerCaseUrl, "chatgpt.com")
                \/ includes(lowerCaseUrl, "chat.openai.com") THEN "ChatGptHandler"
        ELSE IF PlatformOf(p) = Str(<<"gemini">>) THEN "GeminiHandler"
        ELSE IF PlatformOf(p) = Str(<<"chatgpt">>) THEN "ChatGptHandler"
        ELSE "Error"

\* handler_factory.js getHandler (14-49): the class of the handler it
\* returns, or "Error" when it throws
getHandler(p, u, g, c) ==
    LET platform_ == PlatformOf(p)
        url == UrlOf(u, g, c)
        lowerCaseUrl == toLowerCase(url.text)
    IN  IF platform_ = Str(<<"gemini">>) THEN "GeminiHandler"
        ELSE IF platform_ = Str(<<"chatgpt">>) THEN "ChatGptHandler"
        ELSE IF ~TruthyString(platform_) /\ TruthyString(url)
             THEN IF includes(lowerCaseUrl, "gemini.google.com") THEN "GeminiHandler"
                  ELSE IF includes(lowerCaseUrl, "chatgpt.com")
                          \/ includes(lowerCaseUrl, "chat.openai.com")
                       THEN "ChatGptHandler"
                  ELSE "Error"
        ELSE "Error"

\* gemini_service.js 400 and 492:
\* options.url || options.chatgptUrl || options.geminiUrl
InitialUrlOf(u, g, c) == JsOr(JsOr(u, c), g)

\* the most calls of incrementCounter, browsers and callers of the browser
\* factory looked at
MaxCalls == 3
MaxBrowsers == 2
MaxCallers == 2

Browsers == 1..MaxBrowsers
Callers == 1..MaxCallers

\* no call of incrementCounter has been made
NoIncrement ==
    [pc |-> "idle",          \* "idle", "read" (line 261 awaited) or "write" (278)
     file |-> 0,             \* filePath
     key |-> "none",         \* keyToIncrement
     before |-> NoData,      \* history: the stored record when the call began
     data |-> NoData,        \* currentAppData
     returned |-> Null,      \* what the call returned
     calls |-> 0]            \* history: calls begun so far
CounterIdle == increment = NoIncrement

\* a caller of the browser factory that has no call under way
NoFactoryCall ==
    [pc |-> "idle",          \* "idle", "launching" (line 46 awaited) or "closing" (98)
     target |-> 0,           \* close: the browser whose close() is awaited
     result |-> "none",      \* what the last call returned or threw
     got |-> 0]              \* the browser the last launchBrowser returned
FactoryIdle ==
    /\ factoryBrowser = 0
    /\ browsers = [b \in Browsers |-> "unborn"]
    /\ calls = [c \in Callers |-> NoFactoryCall]

\* no session is being started
NoSessionStart ==
    /\ optPlatform = NoString
    /\ optUrl = NoString
    /\ optGeminiUrl = DefaultGeminiUrl
    /\ optChatgptUrl = DefaultChatgptUrl
    /\ handler = "none"
    /\ initialUrl = NoString
    /\ startPc = "idle"

----------------------------------------------------------------------------
RecWrite(u, key, at, exifUpdated) ==
    [rec EXCEPT ![u].writes = @ + 1, ![u].writeKey = key,
                ![u].writeIter = fileIndex, ![u].writeAt = at,
                ![u].writeOk = JsBool(exifUpdated)]

Init ==
    /\ platform \in {"chatgpt", "gemini"}
    /\ skipIfCreated \in BOOLEAN
    /\ selectorsOk \in BOOLEAN
    /\ numImages \in 1..MaxUnits
    /\ exif \in [Units -> {NoData, [successCount |-> StoredSuccess, failedCount |-> 0]}]
    /\ \A u \in Units : u > numImages => exif[u] = NoData
    /\ summary = ZeroSummary
    /\ previousImagePath = 0
    /\ successStatusForPreviousImage = Null
    /\ fileIndex = 0
    /\ attemptResult = NoResult
    /\ existingCount = -1
    /\ pc = "loop"
    /\ retryAttempt = 0
    /\ submitted = False
    /\ successStatusOfPrevious = False
    /\ successOfPrevious = False
    /\ hErr = "none"
    /\ rec = [u \in Units |-> NoRec]
    /\ call = NoCall
    /\ runPc = "s_batch"
    /\ exitCode = 0
    /\ recurse = FALSE
    /\ concurrency = 1
    /\ inputDirs = {}
    /\ profileDirs = {}
    /\ files = [d \in Dirs |-> 0]
    /\ inputSubDirs = <<>>
    /\ userDataSubDirs = <<>>
    /\ numPairs = 0
    /\ tasks = [i \in Dirs |-> NoTask]
    /\ aggregateSummary = ZeroSummary
    /\ resultSummary = ZeroSummary
    /\ browser = "open"
    /\ sharedExifWriter = "live"
    /\ logged = <<>>
    /\ touched = [d \in Dirs |-> 0]
    /\ NoSessionStart
    /\ CounterIdle
    /\ FactoryIdle

\* what happens at the end of the loop body or at `continue`: the for-of takes
\* the next path, or the loop ends (line 544, 604)
AfterBody == "loop"

\* lines 544-547: take the next image path
NextImage ==
    /\ pc = "loop"
    /\ fileIndex < numImages
    /\ fileIndex' = fileIndex + 1
    /\ pc' = "persist"
    /\ UNCHANGED <<configVars, exif, summary, previousImagePath,
                   successStatusForPreviousImage, attemptResult, existingCount,
                   handlerVars, rec, call>>

\* lines 549-558: update the EXIF of the previous image when its status is known
PersistPrevious ==
    /\ pc = "persist"
    /\ IF PersistDue(previousImagePath, successStatusForPreviousImage)
       THEN \E readOk \in BOOLEAN, writeOk \in BOOLEAN :
              LET key == KeyToIncrement(successStatusForPreviousImage) IN
              /\ exif' = exifAfterIncrement(previousImagePath, key, readOk, writeOk)
              /\ summary' = TallyPersist(summary, successStatusForPreviousImage, writeOk)
              /\ rec' = RecWrite(previousImagePath, key, "loop", writeOk)
       ELSE UNCHANGED <<exif, summary, rec>>
    /\ successStatusForPreviousImage' = Null
    /\ pc' = "skipcheck"
    /\ UNCHANGED <<configVars, previousImagePath, fileIndex, attemptResult,
                   existingCount, handlerVars, call>>

\* lines 561-564: read the counters of the current image
ReadExisting ==
    /\ pc = "skipcheck"
    /\ \E readOk \in BOOLEAN :
         existingCount' = existingSuccessCount(getAppData(currentImagePath, readOk))
    /\ pc' = "skipdecide"
    /\ UNCHANGED <<configVars, exif, summary, previousImagePath,
                   successStatusForPreviousImage, fileIndex, attemptResult,
                   handlerVars, rec, call>>

\* lines 565-571: skip the current image when it already has a success count
SkipDecide ==
    /\ pc = "skipdecide"
    /\ IF ShouldSkip(existingCount, skipIfCreated)
       THEN /\ summary' = MarkSkipped(summary)
            /\ previousImagePath' = 0
            /\ rec' = [rec EXCEPT ![currentImagePath].skipped = @ + 1]
            /\ pc' = AfterBody
       ELSE /\ pc' = "submit"
            /\ UNCHANGED <<summary, previousImagePath, rec>>
    /\ existingCount' = -1
    /\ UNCHANGED <<configVars, exif, successStatusForPreviousImage, fileIndex,
                   attemptResult, handlerVars, call>>

\* lines 574-579: count the image as processed and call handler.processImage
CallHandler ==
    /\ pc = "submit"
    /\ summary' = MarkProcessed(summary)
    /\ attemptResult' = NoResult
    /\ rec' = [rec EXCEPT ![currentImagePath].invoked = @ + 1]
    /\ call' = NoCall
    /\ pc' = IF platform = "chatgpt" THEN "c_enter" ELSE "g_enter"
    /\ UNCHANGED <<configVars, exif, previousImagePath, successStatusForPreviousImage,
                   fileIndex, existingCount, handlerVars>>

\* lines 581-597: read the handler's result (or catch what it threw), keep the
\* status and the path for the next iteration
HandleResult ==
    /\ pc = "result"
    /\ successStatusForPreviousImage' = StatusFromResult(attemptResult)
    /\ summary' = IF SubmitErrorFromResult(attemptResult)
                  THEN [summary EXCEPT !.submitErrors = @ + 1] ELSE summary
    /\ rec' = [rec EXCEPT ![currentImagePath].submitErrors =
                   IF SubmitErrorFromResult(attemptResult) THEN @ + 1 ELSE @]
    /\ previousImagePath' = NextPrevious(currentImagePath)
    /\ pc' = "pace"
    /\ UNCHANGED <<configVars, exif, fileIndex, attemptResult, existingCount,
                   handlerVars, call>>

\* line 599: the wait is taken after every file, the last one too
PacingDueAlways(index, length) == TRUE

\* line 599: if (fileIndex < imagePaths.length)
PacingDue(index, length) == index < length

\* lines 598-604: wait options.waitTimeout unless this was the last file
Pace ==
    /\ pc = "pace"
    /\ pc' = AfterBody
    /\ call' = NoCall
    /\ rec' = IF PacingDue(fileIndex, numImages)
              THEN [rec EXCEPT ![currentImagePath].delays = @ + 1]
              ELSE rec
    /\ UNCHANGED <<configVars, exif, managerVars, handlerVars>>

\* lines 606-622: update the EXIF of the last image of the batch and return
Flush ==
    /\ pc = "loop"
    /\ fileIndex >= numImages
    /\ IF FinalPersistDue(previousImagePath, successStatusForPreviousImage)
       THEN \E readOk \in BOOLEAN, writeOk \in BOOLEAN :
              LET key == KeyToIncrement(successStatusForPreviousImage) IN
              /\ exif' = exifAfterIncrement(previousImagePath, key, readOk, writeOk)
              /\ summary' = TallyPersist(summary, successStatusForPreviousImage, writeOk)
              /\ rec' = RecWrite(previousImagePath, key, "flush", writeOk)
       ELSE IF FlushUndetermined(previousImagePath, successStatusForPreviousImage, summary)
       THEN \E readOk \in BOOLEAN, writeOk \in BOOLEAN :
              /\ exif' = exifAfterIncrement(previousImagePath, exifFailedKey, readOk, writeOk)
              /\ summary' = TallyPersist(summary, False, writeOk)
              /\ rec' = RecWrite(previousImagePath, exifFailedKey, "flush", writeOk)
       ELSE UNCHANGED <<exif, summary, rec>>
    /\ pc' = "done"
    /\ UNCHANGED <<configVars, previousImagePath, successStatusForPreviousImage,
                   fileIndex, attemptResult, existingCount, handlerVars, call>>

----------------------------------------------------------------------------
(* ChatGptHandler.processImage (part_002 30-122) and                       *)
(* ChatGptService.checkPreviousSuccessAndSubmit (part_003 181-254)         *)

\* part_002:45  while (retryAttempt <= maxRetries)
LoopCondition(attempt) == attempt <= maxRetries

\* part_002:94  a retry is left, whatever the error was
CanRetryAnyError(err, attempt) == attempt < maxRetries

\* part_002:94  the submit-button timeout, and a retry is left
CanRetry(err, attempt) == err = "GateTimeout" /\ attempt < maxRetries

\* part_003:229  successOfPrevious = currentImageCount > 0
DetermineSuccess(currentImageCount) == JsBool(currentImageCount > 0)

\* part_002:121  return { submitted, successStatusOfPrevious }
ChatGptResult(sub, prev) ==
    [thrown |-> FALSE, submitted |-> sub, successStatusOfPrevious |-> prev,
     success |-> Undefined]

\* part_003 (GeminiHandler) lines 59, 71, 77: return {success: ...}
GeminiResult(success) ==
    [thrown |-> FALSE, submitted |-> Undefined,
     successStatusOfPrevious |-> Undefined, success |-> success]

\* an exception leaves handler.processImage
ThrownResult == [NoResult EXCEPT !.thrown = TRUE]

\* handler.processImage is over, with no try around line 579: an exception
\* leaves processImageBatch
ReturnToManagerUncaught(r) ==
    /\ attemptResult' = r
    /\ rec' = [rec EXCEPT ![currentImagePath].returned = TRUE,
                          ![currentImagePath].result = r]
    /\ pc' = IF r.thrown THEN "aborted" ELSE "result"
    /\ retryAttempt' = 0
    /\ submitted' = False
    /\ successStatusOfPrevious' = False
    /\ successOfPrevious' = False
    /\ hErr' = "none"

\* handler.processImage is over: the result goes to processImageBatch, an
\* exception to the catch of line 590
ReturnToManager(r) ==
    /\ attemptResult' = r
    /\ rec' = [rec EXCEPT ![currentImagePath].returned = TRUE,
                          ![currentImagePath].result = r]
    /\ pc' = "result"
    /\ retryAttempt' = 0
    /\ submitted' = False
    /\ successStatusOfPrevious' = False
    /\ successOfPrevious' = False
    /\ hErr' = "none"

\* part_002 30-43: build the service on first use (its constructor throws when
\* a required selector is missing), set the locals
C_Enter ==
    /\ pc = "c_enter"
    /\ IF selectorsOk
       THEN /\ retryAttempt' = 0
            /\ successStatusOfPrevious' = False
            /\ submitted' = False
            /\ pc' = "c_guard"
            /\ UNCHANGED <<attemptResult, rec, successOfPrevious, hErr>>
       ELSE ReturnToManager(ThrownResult)
    /\ UNCHANGED <<configVars, exif, summary, previousImagePath,
                   successStatusForPreviousImage, fileIndex, existingCount, call>>

\* config.js 51-54 and 69-73: the platform's captchaSelectors are not empty
CaptchaConfigured(p) == p = "chatgpt"

\* the ways Promise.race of part_001:58 settles: the captcha selector or the
\* ready selector became visible first, or a wait timed out or failed first
GuardRaces == {"captcha", "ready", "timeout", "error"}

\* part_001 42-99  BaseHandler.handlePotentialCaptcha: every await after line
\* 55 is inside the try whose catch (90-98) returns false
handlePotentialCaptcha(configured, race, captchaElement, reprobeFound) ==
    IF ~configured
    THEN [GuardNotRun EXCEPT !.returned = False]
    ELSE IF race \in {"timeout", "error"}
    THEN [GuardNotRun EXCEPT !.race = race, !.returned = False]
    ELSE IF captchaElement
    THEN [race |-> race, element |-> TRUE, paused |-> TRUE,
          reprobe |-> IF reprobeFound THEN "found" ELSE "timeout",
          thrown |-> FALSE,
          returned |-> IF reprobeFound THEN True ELSE False]
    ELSE [GuardNotRun EXCEPT !.race = race, !.returned = False]

\* part_002:54 is inside the try of line 50: an error leaving the guard would
\* go to the catch of line 89
AfterCaptchaGuard(g) == IF g.thrown THEN "c_catch" ELSE "c_ready"

\* history: an attempt begins
BeginAttempt(c) ==
    [c EXCEPT !.attempts = @ + 1, !.lastErr = "none", !.steps = <<"guard">>,
              !.count = -1]

\* history: the running attempt takes a step
Step(c, s) == [c EXCEPT !.steps = Append(@, s)]

\* history: the running attempt fails
Fail(c, e) ==
    [c EXCEPT !.lastErr = e, !.firstErr = IF c.attempts = 1 THEN e ELSE @]

\* part_002 45-54: one iteration of the retry loop begins with the captcha guard
C_Guard ==
    /\ pc = "c_guard"
    /\ IF LoopCondition(retryAttempt)
       THEN \E race \in GuardRaces, captchaElement \in BOOLEAN, reprobeFound \in BOOLEAN :
              LET g == handlePotentialCaptcha(CaptchaConfigured(platform), race,
                                              captchaElement, reprobeFound) IN
              /\ call' = [BeginAttempt(call) EXCEPT !.guard = g]
              /\ pc' = AfterCaptchaGuard(g)
              /\ hErr' = IF g.thrown THEN "Other" ELSE hErr
       ELSE /\ pc' = "c_return"
            /\ UNCHANGED <<call, hErr>>
    /\ UNCHANGED <<configVars, exif, managerVars, retryAttempt, submitted,
                   successStatusOfPrevious, successOfPrevious, rec>>

\* part_002 70-76: the handler goes on with the upload although the ready
\* selectors are not visible
NotReadyFallsThrough == "c_upload"

\* part_002 70-76: when the ready selectors are not visible the loop is left
\* at line 75
NotReadyBreak == "c_return"

\* part_002 56-76: the delay guard, then the check that the ready selectors
\* are visible

C_Ready ==
    /\ pc = "c_ready"
    /\ \E ready \in BOOLEAN :
         IF ready
         THEN /\ pc' = "c_upload"
              /\ call' = [call EXCEPT !.guard = GuardNotRun]
              /\ UNCHANGED <<submitted, successStatusOfPrevious>>
         ELSE /\ submitted' = False
              /\ successStatusOfPrevious' = False
              /\ call' = [Fail(call, "NotReady") EXCEPT !.guard = GuardNotRun]
              /\ pc' = NotReadyBreak
    /\ UNCHANGED <<configVars, exif, managerVars, retryAttempt, successOfPrevious,
                   hErr, rec>>

\* part_002:79  chatgptService.uploadImage
C_Upload ==
    /\ pc = "c_upload"
    /\ \E ok \in BOOLEAN :
         IF ok THEN /\ pc' = "c_prompt"
                    /\ call' = Step(call, "upload")
                    /\ UNCHANGED hErr
               ELSE /\ pc' = "c_catch"
                    /\ call' = Fail(Step(call, "upload"), "Other")
                    /\ hErr' = "Other"
    /\ UNCHANGED <<configVars, exif, managerVars, retryAttempt, submitted,
                   successStatusOfPrevious, successOfPrevious, rec>>

\* part_002:80  chatgptService.enterPrompt
C_Prompt ==
    /\ pc = "c_prompt"
    /\ \E ok \in BOOLEAN :
         IF ok THEN /\ pc' = "c_gate"
                    /\ call' = Step(call, "prompt")
                    /\ UNCHANGED hErr
               ELSE /\ pc' = "c_catch"
                    /\ call' = Fail(Step(call, "prompt"), "Other")
                    /\ hErr' = "Other"
    /\ UNCHANGED <<configVars, exif, managerVars, retryAttempt, submitted,
                   successStatusOfPrevious, successOfPrevious, rec>>

\* part_003:191 returned: the button is enabled, and it is clicked at once
GateOpenedNoCheck == "c_click"

\* part_003:191 returned: the button is enabled, the latest response block is
\* inspected next

GateOpened == "c_check"

\* part_003 181-192, 240-253: wait for the enabled submit button
C_WaitGate ==
    /\ pc = "c_gate"
    /\ successOfPrevious' = False
    /\ \E outcome \in {"enabled", "timeout", "error"} :
         CASE outcome = "enabled" ->
                /\ pc' = GateOpened
                /\ call' = Step(call, "gate")
                /\ UNCHANGED hErr
           [] outcome = "timeout" ->
                /\ pc' = "c_catch"
                /\ hErr' = "GateTimeout"
                /\ call' = [Fail(Step(call, "gate"), "GateTimeout")
                              EXCEPT !.gateTimeouts = @ + 1,
                                     !.firstGate = @ \/ call.attempts = 1]
           [] outcome = "error" ->
                /\ pc' = "c_catch"
                /\ hErr' = "Other"
                /\ call' = Fail(Step(call, "gate"), "Other")
    /\ UNCHANGED <<configVars, exif, managerVars, retryAttempt, submitted,
                   successStatusOfPrevious, rec>>

\* part_003 194-230: count the images in the latest response block
C_CheckPrevious ==
    /\ pc = "c_check"
    /\ \E currentImageCount \in 0..MaxImages :
         /\ successOfPrevious' = DetermineSuccess(currentImageCount)
         /\ call' = [Step(call, "determine") EXCEPT !.count = currentImageCount]
    /\ pc' = "c_click"
    /\ UNCHANGED <<configVars, exif, managerVars, retryAttempt, submitted,
                   successStatusOfPrevious, hErr, rec>>

\* part_003 232-238 and part_002 83-87: click submit; the determined status
\* is returned to the handler
C_Click ==
    /\ pc = "c_click"
    /\ \E ok \in BOOLEAN :
         IF ok
         THEN /\ successStatusOfPrevious' = successOfPrevious
              /\ submitted' = True
              /\ pc' = "c_return"
              /\ call' = [Step(call, "click") EXCEPT !.clicked = TRUE]
              /\ UNCHANGED hErr
         ELSE /\ pc' = "c_catch"
              /\ hErr' = "Other"
              /\ call' = Fail(Step(call, "click"), "Other")
              /\ UNCHANGED <<successStatusOfPrevious, submitted>>
    /\ UNCHANGED <<configVars, exif, managerVars, retryAttempt, successOfPrevious, rec>>

\* part_002:102  after a reload that succeeded the loop goes on with the next
\* iteration
AfterReload == "c_guard"

\* part_002 103-108: a reload that failed goes on with the next iteration
ReloadFailedContinue == "c_guard"

\* part_002 103-108: a reload that failed leaves the loop
ReloadFailedBreak == "c_return"

\* part_002:112 reporting what the service had determined before it failed
StatusOnFailureDetermined(determined) == determined

\* part_002:112  successStatusOfPrevious = false, whatever the service had
\* determined before it threw
StatusOnFailure(determined) == False

\* part_002 89-116: the catch of the retry loop
C_Catch ==
    /\ pc = "c_catch"
    /\ IF CanRetry(hErr, retryAttempt)
       THEN /\ retryAttempt' = retryAttempt + 1
            /\ \E reloadOk \in BOOLEAN :
                 IF reloadOk
                 THEN /\ pc' = AfterReload
                      /\ call' = [call EXCEPT !.reloads = @ + 1]
                      /\ UNCHANGED <<submitted, successStatusOfPrevious>>
                 ELSE /\ submitted' = False
                      /\ successStatusOfPrevious' = False
                      /\ call' = [call EXCEPT !.reloads = @ + 1, !.reloadFailed = TRUE]
                      /\ pc' = ReloadFailedBreak
       ELSE /\ submitted' = False
            /\ successStatusOfPrevious' = StatusOnFailure(successOfPrevious)
            /\ pc' = "c_return"
            /\ UNCHANGED <<retryAttempt, call>>
    /\ hErr' = "none"
    /\ UNCHANGED <<configVars, exif, managerVars, successOfPrevious, rec>>

\* part_002 119-121
C_Return ==
    /\ pc = "c_return"
    /\ ReturnToManager(ChatGptResult(submitted, successStatusOfPrevious))
    /\ UNCHANGED <<configVars, exif, summary, previousImagePath,
                   successStatusForPreviousImage, fileIndex, existingCount, call>>

----------------------------------------------------------------------------
(* GeminiHandler.processImage (part_003 26-79) *)

\* lines 26-34: build the service on first use (the constructor throws when a
\* required selector is missing)
G_Enter ==
    /\ pc = "g_enter"
    /\ IF selectorsOk
       THEN /\ pc' = "g_guard"
            /\ UNCHANGED <<attemptResult, rec, handlerVars>>
       ELSE ReturnToManager(ThrownResult)
    /\ UNCHANGED <<configVars, exif, summary, previousImagePath,
                   successStatusForPreviousImage, fileIndex, existingCount, call>>

\* lines 36-60: captcha guard (gemini has no captchaSelectors: it returns at
\* part_001:49), delay guard, readiness check
G_Guard ==
    /\ pc = "g_guard"
    /\ \E ready \in BOOLEAN :
         IF ready
         THEN /\ pc' = "g_upload"
              /\ call' = BeginAttempt(call)
              /\ UNCHANGED <<attemptResult, handlerVars, rec>>
         ELSE /\ ReturnToManager(GeminiResult(False))
              /\ call' = Fail(BeginAttempt(call), "NotReady")
    /\ UNCHANGED <<configVars, exif, summary, previousImagePath,
                   successStatusForPreviousImage, fileIndex, existingCount>>

\* lines 64-66 and the catch at 73-78: upload, prompt, submit
G_Upload ==
    /\ pc = "g_upload"
    /\ \E ok \in BOOLEAN :
         IF ok THEN /\ pc' = "g_prompt"
                    /\ call' = Step(call, "upload")
                    /\ UNCHANGED <<attemptResult, rec, handlerVars>>
               ELSE /\ ReturnToManager(GeminiResult(False))
                    /\ call' = Fail(Step(call, "upload"), "Other")
    /\ UNCHANGED <<configVars, exif, summary, previousImagePath,
                   successStatusForPreviousImage, fileIndex, existingCount>>

G_Prompt ==
    /\ pc = "g_prompt"
    /\ \E ok \in BOOLEAN :
         IF ok THEN /\ pc' = "g_submit"
                    /\ call' = Step(call, "prompt")
                    /\ UNCHANGED <<attemptResult, rec, handlerVars>>
               ELSE /\ ReturnToManager(GeminiResult(False))
                    /\ call' = Fail(Step(call, "prompt"), "Other")
    /\ UNCHANGED <<configVars, exif, summary, previousImagePath,
                   successStatusForPreviousImage, fileIndex, existingCount>>

G_Submit ==
    /\ pc = "g_submit"
    /\ \E ok \in BOOLEAN :
         IF ok THEN /\ pc' = "g_wait"
                    /\ call' = Step(call, "click")
                    /\ UNCHANGED <<attemptResult, rec, handlerVars>>
               ELSE /\ ReturnToManager(GeminiResult(False))
                    /\ call' = Fail(Step(call, "click"), "Other")
    /\ UNCHANGED <<configVars, exif, summary, previousImagePath,
                   successStatusForPreviousImage, fileIndex, existingCount>>

\* lines 67-71 (and 73-78 when waitForResponse throws): the response of THIS
\* image has an image in it or not
G_WaitForResponse ==
    /\ pc = "g_wait"
    /\ \E imageFound \in BOOLEAN :
         ReturnToManager(GeminiResult(JsBool(imageFound)))
    /\ UNCHANGED <<configVars, exif, summary, previousImagePath,
                   successStatusForPreviousImage, fileIndex, existingCount, call>>

----------------------------------------------------------------------------
Next ==
    \/ NextImage
    \/ PersistPrevious
    \/ ReadExisting
    \/ SkipDecide
    \/ CallHandler
    \/ HandleResult
    \/ Pace
    \/ Flush
    \/ C_Enter
    \/ C_Guard
    \/ C_Ready
    \/ C_Upload
    \/ C_Prompt
    \/ C_WaitGate
    \/ C_CheckPrevious
    \/ C_Click
    \/ C_Catch
    \/ C_Return
    \/ G_Enter
    \/ G_Guard
    \/ G_Upload
    \/ G_Prompt
    \/ G_Submit
    \/ G_WaitForResponse

Spec == Init /\ [][Next]_vars

TypeOK ==
    /\ pc \in {"idle", "loop", "persist", "skipcheck", "skipdecide", "submit", "result", "pace", "done",
               "c_enter", "c_guard", "c_ready", "c_upload", "c_prompt", "c_gate", "c_check",
               "c_click", "c_catch", "c_return",
               "g_enter", "g_guard", "g_upload", "g_prompt", "g_submit", "g_wait"}
    /\ fileIndex \in 0..numImages
    /\ previousImagePath \in 0..numImages
    /\ successStatusForPreviousImage \in {Null, True, False, Undefined}
    /\ runPc \in {"init", "run", "s_find", "s_launch", "s_goto", "s_ready", "s_batch",
                  "s_close", "s_cleanup", "s_log", "r_findInput", "r_findProfiles",
                  "r_await", "r_finally", "finished", "thrown", "exited"}
    /\ exitCode \in {0, 1}
    /\ numPairs \in 0..MaxDirs
    /\ \A i \in Dirs :
         tasks[i].pc \in {"none", "queued", "launch", "navigate", "find", "batch",
                          "close", "cleanup", "done"}

----------------------------------------------------------------------------
(* runCli (part_004 142-170), Manager.run (gemini_service.js 329-338) and  *)
(* Manager.runSingleMode (472-526)                                          *)

\* the state the pipeline's variables have while processImageBatch is not running
PipelineIdle ==
    /\ summary = ZeroSummary
    /\ previousImagePath = 0
    /\ successStatusForPreviousImage = Null
    /\ fileIndex = 0
    /\ attemptResult = NoResult
    /\ existingCount = -1
    /\ pc = "idle"
    /\ retryAttempt = 0
    /\ submitted = False
    /\ successStatusOfPrevious = False
    /\ successOfPrevious = False
    /\ hErr = "none"
    /\ rec = [u \in Units |-> NoRec]
    /\ call = NoCall

\* the image files in the first n subdirectories of options.input
RECURSIVE TotalFiles(_, _)
TotalFiles(f, n) == IF n = 0 THEN 0 ELSE f[n] + TotalFiles(f, n - 1)

\* the process is started: options are parsed, nothing is constructed yet
RunInit ==
    /\ recurse \in BOOLEAN
    /\ IF recurse
       THEN /\ platform = "chatgpt" /\ skipIfCreated = TRUE /\ selectorsOk = TRUE
            /\ numImages = 0
            /\ exif = [u \in Units |-> NoData]
            /\ concurrency \in 1..MaxDirs
            /\ inputDirs \in SUBSET Dirs
            \* nothing is read from a profile directory but its name: K
            \* profiles are named 1..K
            /\ profileDirs \in {1..k : k \in 0..MaxDirs}
            /\ files \in [Dirs -> 0..MaxPairFiles]
            /\ \A d \in Dirs : d \notin inputDirs => files[d] = 0
            /\ TotalFiles(files, MaxDirs) <= MaxPairFiles
       ELSE /\ platform \in {"chatgpt", "gemini"}
            /\ skipIfCreated \in BOOLEAN
            /\ selectorsOk \in BOOLEAN
            /\ numImages \in 0..MaxUnits
            /\ exif \in [Units -> {NoData, [successCount |-> StoredSuccess, failedCount |-> 0]}]
            \* only the first image can have succeeded in an earlier run
            /\ \A u \in Units : (u > numImages \/ u > 1) => exif[u] = NoData
            /\ concurrency = 1
            /\ inputDirs = {}
            /\ profileDirs = {}
            /\ files = [d \in Dirs |-> 0]
    /\ PipelineIdle
    /\ NoSessionStart
    /\ CounterIdle
    /\ FactoryIdle
    /\ runPc = "init"
    /\ exitCode = 0
    /\ inputSubDirs = <<>>
    /\ userDataSubDirs = <<>>
    /\ numPairs = 0
    /\ tasks = [i \in Dirs |-> NoTask]
    /\ aggregateSummary = ZeroSummary
    /\ resultSummary = ZeroSummary
    /\ browser = "none"
    /\ sharedExifWriter = "none"
    /\ logged = <<>>
    /\ touched = [d \in Dirs |-> 0]

pipelineVars == <<exif, managerVars, pc, handlerVars, rec, call>>

\* part_004 145-157: build FileManager, ExifWriter and Manager; when one of the
\* constructors throws, set the exit code, end the ExifWriter if it was built,
\* and return
CliInit ==
    /\ runPc = "init"
    /\ \E failure \in {"none", "beforeExifWriter", "afterExifWriter"} :
         CASE failure = "none" ->
                /\ sharedExifWriter' = "live"
                /\ runPc' = "run"
                /\ UNCHANGED exitCode
           [] failure = "beforeExifWriter" ->
                /\ exitCode' = 1
                /\ runPc' = "exited"
                /\ UNCHANGED sharedExifWriter
           [] failure = "afterExifWriter" ->
                /\ exitCode' = 1
                /\ sharedExifWriter' = "ended"
                /\ runPc' = "exited"
    /\ UNCHANGED <<optionVars, pipelineVars, recurse, resultSummary, browser, logged,
                   recursiveVars>>

\* Manager.run 329-335: ensureOutputDir (which catches the error of mkdir),
\* then the mode
ManagerRun ==
    /\ runPc = "run"
    /\ runPc' = IF recurse THEN "r_findInput" ELSE "s_find"
    /\ UNCHANGED <<optionVars, pipelineVars, exitCode, recurse, resultSummary, browser,
                   sharedExifWriter, logged, recursiveVars>>

\* runSingleMode 507-509: an exception of the try block is logged by the catch
\* and control goes to the finally block
SingleCatch == "s_close"

\* runSingleMode 485: `return` inside the try block runs the finally block
NoImagesReturn == "s_close"

\* runSingleMode 481-486: findImageFiles (which returns what it found, and []
\* when the directory cannot be read)
S_FindImages ==
    /\ runPc = "s_find"
    /\ runPc' = IF numImages = 0 THEN NoImagesReturn ELSE "s_launch"
    /\ UNCHANGED <<optionVars, pipelineVars, exitCode, recurse, resultSummary, browser,
                   sharedExifWriter, logged, recursiveVars>>

\* runSingleMode 488-490: browserFactory.launchBrowser (rethrows a launch
\* failure), handlerFactory.getHandler and browserFactory.newPage (both throw)
S_Launch ==
    /\ runPc = "s_launch"
    /\ \E outcome \in {"ok", "launchFailed", "failedAfterLaunch"} :
         /\ browser' = IF outcome = "launchFailed" THEN browser ELSE "open"
         /\ runPc' = IF outcome = "ok" THEN "s_goto" ELSE SingleCatch
    /\ UNCHANGED <<optionVars, pipelineVars, exitCode, recurse, resultSummary,
                   sharedExifWriter, logged, recursiveVars>>

\* runSingleMode 492-495: the target URL, page.goto
S_Navigate ==
    /\ runPc = "s_goto"
    /\ \E ok \in BOOLEAN : runPc' = IF ok THEN "s_ready" ELSE SingleCatch
    /\ UNCHANGED <<optionVars, pipelineVars, exitCode, recurse, resultSummary, browser,
                   sharedExifWriter, logged, recursiveVars>>

\* runSingleMode 496-505: the initial readiness check, then the call of
\* processImageBatch
S_Ready ==
    /\ runPc = "s_ready"
    /\ \E ok \in BOOLEAN :
         IF ok THEN runPc' = "s_batch" /\ pc' = "loop"
               ELSE runPc' = SingleCatch /\ UNCHANGED pc
    /\ UNCHANGED <<optionVars, exif, managerVars, handlerVars, rec, call, exitCode,
                   recurse, resultSummary, browser, sharedExifWriter, logged,
                   recursiveVars>>

\* runSingleMode 505: processImageBatch returned its summary
S_BatchReturn ==
    /\ runPc = "s_batch"
    /\ pc = "done"
    /\ resultSummary' = summary
    /\ runPc' = "s_close"
    /\ UNCHANGED <<optionVars, pipelineVars, exitCode, recurse, browser,
                   sharedExifWriter, logged, recursiveVars>>

\* runSingleMode 511 and browser_factory.js close (94-110): close the browser
\* if there is one; an error of close is caught there
S_Close ==
    /\ runPc = "s_close"
    /\ browser' = IF browser = "open" THEN "closed" ELSE browser
    /\ runPc' = "s_cleanup"
    /\ UNCHANGED <<optionVars, pipelineVars, exitCode, recurse, resultSummary,
                   sharedExifWriter, logged, recursiveVars>>

\* runSingleMode 513 and ExifWriter.cleanup (part_004 289-306), which catches
\* the error of exiftool.end
S_Cleanup ==
    /\ runPc = "s_cleanup"
    /\ sharedExifWriter' = "ended"
    /\ runPc' = "s_log"
    /\ UNCHANGED <<optionVars, pipelineVars, exitCode, recurse, resultSummary, browser,
                   logged, recursiveVars>>

\* runSingleMode 515-525: log the Single Run Summary
S_LogSummary ==
    /\ runPc = "s_log"
    /\ logged' = Append(logged, resultSummary)
    /\ runPc' = "finished"
    /\ UNCHANGED <<optionVars, pipelineVars, exitCode, recurse, resultSummary, browser,
                   sharedExifWriter, recursiveVars>>

\* Manager.run 337 and part_004 159-169: run returns and runCli logs the end,
\* or run threw and the catch of runCli sets the exit code
CliFinish ==
    /\ runPc \in {"finished", "thrown"}
    /\ exitCode' = IF runPc = "thrown" THEN 1 ELSE exitCode
    /\ sharedExifWriter' = IF runPc = "thrown" THEN "ended" ELSE sharedExifWriter
    /\ runPc' = "exited"
    /\ UNCHANGED <<optionVars, pipelineVars, recurse, resultSummary, browser, logged,
                   recursiveVars>>

----------------------------------------------------------------------------
(* FileManager.findSubdirectories (config.js 124-149) and                   *)
(* Manager.runRecursiveMode (gemini_service.js 341-469)                      *)

\* the orders in which fs.readdir can list the directories S
Listings(S) ==
    {l \in [1..Cardinality(S) -> S] : \A i, j \in 1..Cardinality(S) : i # j => l[i] # l[j]}

\* put x into the ascending sequence sorted
RECURSIVE Insert(_, _)
Insert(x, sorted) ==
    IF sorted = <<>> THEN <<x>>
    ELSE IF x <= Head(sorted) THEN <<x>> \o sorted
    ELSE <<Head(sorted)>> \o Insert(x, Tail(sorted))

\* Array.prototype.sort without comparator: ascending
RECURSIVE Sort(_)
Sort(list) ==
    IF list = <<>> THEN <<>> ELSE Insert(Head(list), Sort(Tail(list)))

\* findSubdirectories without line 147: the directories as readdir listed them
findSubdirectoriesUnsorted(listing) == listing

\* findSubdirectories: the directories as readdir listed them, sorted (line 147)
findSubdirectories(listing) == Sort(listing)

\* line 352: Math.min
Min(a, b) == IF a < b THEN a ELSE b

\* runRecursiveMode without the catch of line 455: the exception leaves
\* Manager.run
RecursiveCatchMissing == "thrown"

\* lines 455-457: an exception of the try block is logged by the catch and
\* control goes to the finally block
RecursiveCatch == "r_finally"

\* line 356 as a `return` that leaves runRecursiveMode at once
NoPairsReturnAtOnce == "finished"

\* line 356: `return` inside the try block runs the finally block
NoPairsReturn == "r_finally"

\* lines 361-436: a task per index below numPairs, handed to limit()
CreateTasks(inputs, profiles, n) ==
    [i \in Dirs |->
        IF i <= n
        THEN [NoTask EXCEPT !.pc = "queued", !.input = inputs[i], !.profile = profiles[i]]
        ELSE NoTask]

\* a limiter whose slots are never given back when a function settles
ActiveNeverReleased(ts) == {i \in Dirs : ts[i].pc \notin {"none", "queued"}}

\* p-limit: the functions handed to limit() that have been started and whose
\* promise is not settled
Active(ts) == {i \in Dirs : ts[i].pc \notin {"none", "queued", "done"}}

\* the tasks pushed as task() instead of limit(() => task()): every task
\* starts at once
MayStartUnlimited(ts, i, limit) ==
    /\ ts[i].pc = "queued"
    /\ \A j \in Dirs : j < i => ts[j].pc # "queued"

\* p-limit: a queued function is started when fewer than `concurrency` are
\* active, in the order of the limit() calls
MayStart(ts, i, limit) ==
    /\ ts[i].pc = "queued"
    /\ \A j \in Dirs : j < i => ts[j].pc # "queued"
    /\ Cardinality(Active(ts)) < limit

\* line 433: `return pairResult` follows the finally block with no await in
\* between; the task's promise is fulfilled and the limiter's slot is free
TaskReturn == "done"

\* the finally block without line 428
TaskFinallyNoClose(t) ==
    IF t.exifWriterForPair # Null THEN "cleanup" ELSE TaskReturn

\* lines 422-432: the catch logs the error; the finally block closes the
\* browser if one was launched, ends the ExifWriter if one was built
TaskFinally(t) ==
    IF t.browserForPair # Null THEN "close"
    ELSE IF t.exifWriterForPair # Null THEN "cleanup"
    ELSE TaskReturn

\* lines 377-422 with no catch: the exception leaves the task and its promise
\* is rejected
TaskCatchMissing(t) == [t EXCEPT !.failed = TRUE, !.pc = "rejected"]

\* lines 422-425: an exception of the try block is logged by the catch,
\* pairResult stays as it is, control goes to the finally block
TaskCatch(t) == [t EXCEPT !.failed = TRUE, !.pc = TaskFinally(t)]

\* what handler.processImage can hand to processImageBatch (part_002 121,
\* part_003 59-77, or an exception)
HandlerResults ==
    IF platform = "chatgpt"
    THEN {ChatGptResult(True, True), ChatGptResult(False, False), ThrownResult}
    ELSE {GeminiResult(True), GeminiResult(False), ThrownResult}

\* processImageBatch 549-558 / 606-613 on the summary of a task: the counter
\* write for the previous image, when its status is known
BatchPersist(s, pending, writeOk) ==
    IF pending # Null THEN TallyPersist(s, pending, writeOk) ELSE s

\* processImageBatch 574-594 on the summary of a task
BatchSubmit(s, r) ==
    IF SubmitErrorFromResult(r)
    THEN [MarkProcessed(s) EXCEPT !.submitErrors = @ + 1]
    ELSE MarkProcessed(s)

\* lines 446-451 without line 451
AddSummaryNoExifErrors(a, b) ==
    [processed |-> a.processed + b.processed,
     skipped |-> a.skipped + b.skipped,
     success |-> a.success + b.success,
     failed |-> a.failed + b.failed,
     submitErrors |-> a.submitErrors + b.submitErrors,
     exifErrors |-> a.exifErrors]

\* lines 446-451
AddSummary(a, b) ==
    [processed |-> a.processed + b.processed,
     skipped |-> a.skipped + b.skipped,
     success |-> a.success + b.success,
     failed |-> a.failed + b.failed,
     submitErrors |-> a.submitErrors + b.submitErrors,
     exifErrors |-> a.exifErrors + b.exifErrors]

\* lines 444-453: results.forEach over the first n results
RECURSIVE Aggregate(_, _)
Aggregate(ts, n) ==
    IF n = 0 THEN ZeroSummary
    ELSE AddSummary(Aggregate(ts, n - 1), ts[n].pairResult)

\* line 440 with Promise.race: fulfilled when some task has returned
FirstSettled(ts, n) == \E i \in 1..n : ts[i].pc = "done"

\* line 440: Promise.all(tasks) is fulfilled when every task has returned
AllSettled(ts, n) == \A i \in 1..n : ts[i].pc = "done"

cliVars == <<exitCode, recurse, resultSummary, browser, sharedExifWriter>>
fsVars == <<concurrency, inputDirs, profileDirs, files>>

\* line 349: list the input subdirectories
R_FindInputDirs ==
    /\ runPc = "r_findInput"
    /\ \E ok \in BOOLEAN :
         IF ok
         THEN /\ \E listing \in Listings(inputDirs) :
                   inputSubDirs' = findSubdirectories(listing)
              /\ runPc' = "r_findProfiles"
         ELSE /\ runPc' = RecursiveCatch
              /\ UNCHANGED inputSubDirs
    /\ UNCHANGED <<optionVars, pipelineVars, cliVars, fsVars, logged, userDataSubDirs,
                   numPairs, tasks, aggregateSummary, touched>>

\* lines 350-439: list the profile subdirectories, count the pairs, create the
\* tasks and hand them to the limiter
R_FindProfiles ==
    /\ runPc = "r_findProfiles"
    /\ \E ok \in BOOLEAN :
         IF ok
         THEN \E listing \in Listings(profileDirs) :
                LET profiles == findSubdirectories(listing)
                    n == Min(Len(inputSubDirs), Len(profiles))
                IN  /\ userDataSubDirs' = profiles
                    /\ numPairs' = n
                    /\ IF n = 0
                       THEN runPc' = NoPairsReturn /\ UNCHANGED tasks
                       ELSE /\ tasks' = CreateTasks(inputSubDirs, profiles, n)
                            /\ runPc' = "r_await"
         ELSE /\ runPc' = RecursiveCatch
              /\ UNCHANGED <<userDataSubDirs, numPairs, tasks>>
    /\ UNCHANGED <<optionVars, pipelineVars, cliVars, fsVars, logged, inputSubDirs,
                   aggregateSummary, touched>>

taskFrame == <<optionVars, pipelineVars, runPc, cliVars, fsVars, logged, inputSubDirs,
               userDataSubDirs, numPairs, aggregateSummary>>

\* line 379: the task takes the Manager's shared ExifWriter
SharedExifWriterForPair(i) == SharedStore

\* line 379: new ExifWriter(...) inside the task: an instance that only task i
\* holds
NewExifWriterForPair(i) == i

\* lines 368-391: the limiter starts the task; it builds its own ExifWriter
\* (whose constructor can throw) and calls puppeteer.launch
T_Start(i) ==
    /\ MayStart(tasks, i, concurrency)
    /\ \E built \in BOOLEAN :
         tasks' = [tasks EXCEPT ![i] =
                     IF built
                     THEN [@ EXCEPT !.exifWriterForPair = "live",
                                    !.store = NewExifWriterForPair(i), !.pc = "launch"]
                     ELSE TaskCatch(@)]
    /\ UNCHANGED <<taskFrame, touched>>

\* lines 391-394: puppeteer.launch settles; handlerFactory.getHandler
T_Launch(i) ==
    /\ tasks[i].pc = "launch"
    /\ \E outcome \in {"ok", "launchFailed", "noHandler"} :
         LET t == IF outcome = "launchFailed" THEN tasks[i]
                  ELSE [tasks[i] EXCEPT !.browserForPair = "open"]
         IN  tasks' = [tasks EXCEPT ![i] =
                         IF outcome = "ok" THEN [t EXCEPT !.pc = "navigate"]
                         ELSE TaskCatch(t)]
    /\ UNCHANGED <<taskFrame, touched>>

\* lines 395-411: newPage, the target URL, page.goto and the initial
\* readiness check; each of them can throw
T_Navigate(i) ==
    /\ tasks[i].pc = "navigate"
    /\ \E ok \in BOOLEAN :
         tasks' = [tasks EXCEPT ![i] = IF ok THEN [@ EXCEPT !.pc = "find"]
                                             ELSE TaskCatch(@)]
    /\ UNCHANGED <<taskFrame, touched>>

\* findImageFiles (config.js 158-192): the image files of the directory, or
\* the first of them when it cannot be read to the end
findImageFilesPartial(dir, readOk) == IF readOk THEN files[dir] ELSE Min(files[dir], 1)

\* findImageFiles (config.js 158-192): the image files of the directory, or
\* [] when it cannot be read
findImageFiles(dir, readOk) == IF readOk THEN files[dir] ELSE 0

\* lines 415-420: the image files of the pair's input directory
T_FindImages(i) ==
    /\ tasks[i].pc = "find"
    /\ \E readOk \in BOOLEAN :
         LET n == findImageFiles(tasks[i].input, readOk)
         IN  tasks' = [tasks EXCEPT ![i].numFiles = n,
                                    ![i].pc = IF n > 0 THEN "batch"
                                              ELSE TaskFinally(tasks[i])]
    /\ UNCHANGED <<taskFrame, touched>>

\* line 419, processImageBatch 544-604: one iteration of the loop over the
\* pair's images, with the pair's own page, handler and ExifWriter
T_BatchStep(i) ==
    /\ tasks[i].pc = "batch"
    /\ tasks[i].fileIndex < tasks[i].numFiles
    /\ \E writeOk \in BOOLEAN, skip \in BOOLEAN, r \in HandlerResults :
         LET t == tasks[i]
             s == BatchPersist(t.summary, t.pending, writeOk)
         IN  tasks' = [tasks EXCEPT ![i] =
                 IF skip
                 THEN [t EXCEPT !.summary = MarkSkipped(s), !.pending = Null,
                                !.fileIndex = @ + 1]
                 ELSE [t EXCEPT !.summary = BatchSubmit(s, r),
                                !.pending = StatusFromResult(r),
                                !.fileIndex = @ + 1]]
    /\ touched' = [touched EXCEPT ![tasks[i].input] = @ + 1]
    /\ UNCHANGED taskFrame

\* processImageBatch 606-622 and line 419: the last counter write, the summary
\* becomes pairResult
T_BatchFlush(i) ==
    /\ tasks[i].pc = "batch"
    /\ tasks[i].fileIndex >= tasks[i].numFiles
    /\ \E writeOk \in BOOLEAN :
         LET t == tasks[i]
             s == BatchPersist(t.summary, t.pending, writeOk)
         IN  tasks' = [tasks EXCEPT ![i] =
                 [t EXCEPT !.summary = s, !.pending = Null, !.pairResult = s,
                           !.pc = TaskFinally(t)]]
    /\ UNCHANGED <<taskFrame, touched>>

\* lines 427-428: browserForPair.close(), its error caught
T_CloseBrowser(i) ==
    /\ tasks[i].pc = "close"
    /\ tasks' = [tasks EXCEPT ![i].browserForPair = "closed",
                              ![i].pc = IF tasks[i].exifWriterForPair # Null
                                        THEN "cleanup" ELSE TaskReturn]
    /\ UNCHANGED <<taskFrame, touched>>

\* lines 430-433: exifWriterForPair.cleanup() settles (it catches the error of
\* exiftool.end), the task returns pairResult
T_Cleanup(i) ==
    /\ tasks[i].pc = "cleanup"
    /\ tasks' = [tasks EXCEPT ![i].exifWriterForPair = "ended", ![i].pc = TaskReturn]
    /\ UNCHANGED <<taskFrame, touched>>

\* lines 440-453: Promise.all is fulfilled, the results are added up
R_Aggregate ==
    /\ runPc = "r_await"
    /\ AllSettled(tasks, numPairs)
    /\ aggregateSummary' = Aggregate(tasks, numPairs)
    /\ runPc' = "r_finally"
    /\ UNCHANGED <<optionVars, pipelineVars, cliVars, fsVars, logged, inputSubDirs,
                   userDataSubDirs, numPairs, tasks, touched>>

\* lines 457-468: log the Recursive Run Summary
R_LogSummary ==
    /\ runPc = "r_finally"
    /\ logged' = Append(logged, aggregateSummary)
    /\ runPc' = "finished"
    /\ UNCHANGED <<optionVars, pipelineVars, cliVars, fsVars, inputSubDirs,
                   userDataSubDirs, numPairs, tasks, aggregateSummary, touched>>

\* a step of one of the tasks
TaskNext ==
    \E i \in Dirs :
        \/ T_Start(i)
        \/ T_Launch(i)
        \/ T_Navigate(i)
        \/ T_FindImages(i)
        \/ T_BatchStep(i)
        \/ T_BatchFlush(i)
        \/ T_CloseBrowser(i)
        \/ T_Cleanup(i)

RunNext ==
    \/ CliInit
    \/ ManagerRun
    \/ S_FindImages
    \/ S_Launch
    \/ S_Navigate
    \/ S_Ready
    \/ Next
    \/ S_BatchReturn
    \/ S_Close
    \/ S_Cleanup
    \/ S_LogSummary
    \/ R_FindInputDirs
    \/ R_FindProfiles
    \/ TaskNext
    \/ R_Aggregate
    \/ R_LogSummary
    \/ CliFinish

RunSpec == RunInit /\ [][RunNext]_vars

----------------------------------------------------------------------------
(* Properties *)

Images == 1..numImages
Deferred == platform = "chatgpt"
Immediate == platform = "gemini"
Done == pc = "done"

\* processImageBatch has read the result of unit u's handler call (lines 581-597)
Handled(u) == rec[u].returned /\ ~(pc = "result" /\ fileIndex = u)

\* during unit u's call checkPreviousSuccessAndSubmit determined a status for
\* the prompt before it and the handler returned that status
Determined(u) ==
    rec[u].returned /\ ~rec[u].result.thrown /\ rec[u].result.submitted = True

\* C1: under Deferred verification the status the adapter determines for the
\* prior unit during unit u+1's call is the status persisted against unit u
\* (for [img1,img2,img3]: img2's call resolves img1, img3's call resolves img2).
C1_DeferredAttribution ==
    Deferred =>
        \A u \in Images :
            (u < numImages /\ rec[u].invoked = 1 /\ rec[u].writes > 0
               /\ Determined(u + 1))
            => rec[u].writeKey
                   = KeyToIncrement(rec[u + 1].result.successStatusOfPrevious)

\* C2: in a Deferred pipeline the counter write for a unit that is not the last
\* of the list is issued during the next unit's step, after its own adapter
\* call returned, never during its own step; the write for the last unit is
\* issued only by the batch-end flush; and every processed unit gets its write.
C2_DeferredPersistTiming ==
    Deferred =>
        \A u \in Images :
            /\ rec[u].writes > 0 =>
                 /\ rec[u].returned
                 /\ IF u < numImages
                    THEN rec[u].writeAt = "loop" /\ rec[u].writeIter = u + 1
                    ELSE rec[u].writeAt = "flush"
            /\ (Done /\ rec[u].invoked = 1) => rec[u].writes > 0

\* C2 witness: [A,B,C] all processed; A was written in B's step, C at the flush
C2_Witness ==
    /\ Done /\ Deferred /\ numImages = 3
    /\ \A u \in Images : rec[u].invoked = 1 /\ Determined(u)
    /\ rec[1].writeAt = "loop" /\ rec[1].writeIter = 2
    /\ rec[3].writeAt = "flush"

\* C3: at the end of a Deferred batch the last unit, when it was processed, is
\* persisted as Failure whatever its own adapter call returned, never as Success.
C3_FinalUnitPersistedAsFailure ==
    (Done /\ Deferred /\ rec[numImages].invoked = 1)
    => rec[numImages].writeKey = exifFailedKey

\* C4: in an Immediate pipeline the counter write for a unit is issued during
\* that unit's own step, and the batch-end flush issues no counter write.
C4_ImmediatePersistInOwnStep ==
    Immediate =>
        \A u \in Images :
            rec[u].writes > 0 => (rec[u].writeAt = "loop" /\ rec[u].writeIter = u)

\* C5: in an Immediate pipeline a unit for which GeminiHandler.processImage
\* returned success=true gets no submitErrors increment and a successCount
\* write; one for which it returned success=false gets a failedCount write.
C5_ImmediateOutcomeRecorded ==
    Immediate =>
        \A u \in Images :
            Handled(u) =>
                /\ rec[u].result.success = True =>
                     /\ rec[u].submitErrors = 0
                     /\ rec[u].writes > 0 => rec[u].writeKey = exifSuccessKey
                /\ rec[u].result.success = False =>
                     (rec[u].writes > 0 => rec[u].writeKey = exifFailedKey)

\* C6: when processImageBatch returns, processed + skipped is the number of
\* units of the list, whatever the adapter, the counter reads and the counter
\* writes did.
C6_ProcessedPlusSkipped ==
    Done => summary.processed + summary.skipped = numImages

\* C6 witness: a finished batch with skipped and processed units, a failed
\* submission and a failed counter write
C6_Witness ==
    /\ Done /\ numImages >= 3
    /\ summary.skipped >= 1 /\ summary.processed >= 1
    /\ summary.submitErrors >= 1 /\ summary.exifErrors >= 1

\* C7 as stated: a unit whose stored successCount is > 0 is, with skipping
\* enabled, never handed to the adapter and counts as skipped.
C7_StoredSuccessSkips ==
    [][(pc = "skipdecide" /\ skipIfCreated
          /\ exif[currentImagePath].successCount > 0)
       => (pc' # "submit" /\ summary'.skipped = summary.skipped + 1)]_vars

\* C7 amended: when the counter read of a unit returns successCount > 0 and
\* skipping is enabled, the skip branch is taken: skipped grows by exactly 1,
\* processed is unchanged, the adapter is not invoked; and for a unit whose
\* skip branch was taken the adapter is never invoked and no counter write is
\* ever issued in the batch.
C7_ReadSuccessSkips ==
    /\ [](\A u \in Units :
             rec[u].skipped > 0 =>
                 (rec[u].skipped = 1 /\ rec[u].invoked = 0 /\ rec[u].writes = 0))
    /\ [][(pc = "skipdecide" /\ skipIfCreated /\ existingCount > 0)
          => /\ pc' # "submit"
             /\ rec'[currentImagePath].skipped = 1
             /\ summary'.skipped = summary.skipped + 1
             /\ summary'.processed = summary.processed]_vars

\* C7 witness: a finished batch where a unit with stored successCount 2 was
\* skipped between two processed units
C7_Witness ==
    /\ Done /\ skipIfCreated /\ numImages >= 3
    /\ rec[2].skipped = 1 /\ exif[2].successCount = StoredSuccess
    /\ rec[1].invoked = 1 /\ rec[3].invoked = 1
    /\ summary.skipped = 1

\* C8: a unit whose first attempt and retry both raise the submit-button
\* timeout gets exactly 2 attempts, is reported as not submitted, and gets
\* submitErrors incremented exactly once.
C8_RetryBound ==
    Deferred =>
        /\ call.attempts <= 2
        /\ \A u \in Units : rec[u].submitErrors <= 1
        /\ call.gateTimeouts >= 2 =>
             /\ call.attempts = 2
             /\ call.gateTimeouts = 2
             /\ pc = "c_return" => submitted = False
             /\ pc = "result" => attemptResult.submitted = False
             /\ pc = "pace" => /\ rec[currentImagePath].result.submitted = False
                               /\ rec[currentImagePath].submitErrors = 1

\* C8 witness: the unit's result was read after two timed-out attempts
C8_Witness ==
    /\ Deferred /\ pc = "pace"
    /\ call.gateTimeouts = 2 /\ call.attempts = 2
    /\ rec[currentImagePath].submitErrors = 1

\* C9: a unit whose first attempt raises the submit-button timeout and whose
\* retry after the reload submits gets exactly 2 attempts, is reported as
\* submitted, and gets no submitErrors increment.
C9_RetrySucceeds ==
    (Deferred /\ call.firstGate /\ call.clicked)
    => /\ call.attempts = 2
       /\ pc = "c_return" => submitted = True
       /\ pc = "result" => attemptResult.submitted = True
       /\ pc = "pace" => /\ rec[currentImagePath].result.submitted = True
                         /\ rec[currentImagePath].submitErrors = 0

\* C9 witness: img2 timed out once, was submitted on the retry
C9_Witness ==
    /\ Deferred /\ pc = "pace" /\ fileIndex = 2
    /\ call.firstGate /\ call.clicked /\ call.attempts = 2 /\ call.reloads = 1
    /\ rec[2].result.submitted = True
    /\ rec[2].submitErrors = 0

\* C10: within one batch incrementCounter is called at most once for any unit,
\* only after that unit's adapter call returned, and when the batch is over
\* exactly once for every unit the adapter was invoked for and never for a
\* unit it was not invoked for.
C10_OneIncrementPerProcessedUnit ==
    \A u \in Units :
        /\ rec[u].writes <= 1
        /\ rec[u].invoked <= 1
        /\ rec[u].writes = 1 => (rec[u].invoked = 1 /\ Handled(u))
        /\ Done => rec[u].writes = rec[u].invoked

\* C10 witness: a finished batch with a skipped unit, a unit written as success
\* and a unit written as failure
C10_Witness ==
    /\ Done
    /\ \E u \in Images : rec[u].skipped = 1
    /\ \E u \in Images : rec[u].writes = 1 /\ rec[u].writeKey = exifSuccessKey
    /\ \E u \in Images : rec[u].writes = 1 /\ rec[u].writeKey = exifFailedKey

\* the adapter call of unit u failed: it threw, or it reported the unit as not
\* submitted (retry exhausted, page not ready, any caught error)
CallFailed(u) ==
    rec[u].returned /\ (rec[u].result.thrown \/ rec[u].result.submitted # True)

\* C11: under Deferred verification, when the adapter call of unit u+1 fails,
\* unit u+1 gets submitErrors incremented by exactly 1 and is itself written as
\* Failure, and the processed unit u before it, whose attribution was pending
\* during that call, is written as Failure, never as Success.
C11_FailureResolvesPendingAsFailure ==
    Deferred =>
        \A u \in Images :
            (u < numImages /\ rec[u].invoked = 1 /\ Handled(u + 1) /\ CallFailed(u + 1))
            => /\ rec[u + 1].submitErrors = 1
               /\ rec[u + 1].writes > 0 => rec[u + 1].writeKey = exifFailedKey
               /\ rec[u].writes > 0 => rec[u].writeKey = exifFailedKey

\* processImageBatch has visited unit u: taken its skip branch or called the
\* adapter for it
Visited(u) == rec[u].skipped + rec[u].invoked = 1

\* C12: no per-unit error aborts the batch: whatever the adapter call of a unit
\* does (reports a failure, returns a result without `submitted`, throws), the
\* loop is never stuck before processImageBatch returns, the units visited so
\* far are exactly those up to the current one, and when processImageBatch
\* returns its summary every unit of the list has been visited once.
C12_NoUnitErrorAbortsBatch ==
    /\ ~Done => ENABLED Next
    /\ \A u \in Images : Visited(u) \/ (rec[u] = NoRec /\ u >= fileIndex)
    /\ Done => /\ \A u \in Images : Visited(u)
               /\ summary.processed + summary.skipped = numImages

\* C12 witness: a finished batch of three in which the call of img1 threw, the
\* call of img2 threw or reported a failure, and img3 was still handed to the
\* adapter
C12_Witness ==
    /\ Done /\ numImages = 3
    /\ rec[1].result.thrown
    /\ CallFailed(2)
    /\ rec[3].invoked = 1 /\ rec[3].returned

----------------------------------------------------------------------------
(* Properties of runRecursiveMode, Manager.run and runCli *)

\* the pair indices for which a task exists
Created == {i \in Dirs : tasks[i].pc # "none"}

\* the position of directory d among the directories S in sorted order
Rank(d, S) == Cardinality({e \in S : e <= d})

\* min(M, K) for the M input groups and K profiles on disk
PairCount == Min(Cardinality(inputDirs), Cardinality(profileDirs))

\* C13: in paired mode with M input groups and K profiles exactly min(M,K)
\* tasks are created; task i has the i-th input group and the i-th profile in
\* sorted order; a group or profile at a position beyond min(M,K) has no task,
\* and no file of such a group is handed to a pipeline.
C13_PositionalPairing ==
    /\ Cardinality(Created) \in {0, PairCount}
    /\ runPc = "r_await" => Cardinality(Created) = PairCount
    /\ \A i \in Created :
         /\ tasks[i].input \in inputDirs /\ Rank(tasks[i].input, inputDirs) = i
         /\ tasks[i].profile \in profileDirs /\ Rank(tasks[i].profile, profileDirs) = i
    /\ \A d \in Dirs :
         (d \notin inputDirs \/ Rank(d, inputDirs) > PairCount)
         => /\ touched[d] = 0
            /\ \A i \in Created : tasks[i].input # d
    /\ \A d \in Dirs :
         (d \notin profileDirs \/ Rank(d, profileDirs) > PairCount)
         => \A i \in Created : tasks[i].profile # d

\* C13 witness: two input groups and one profile; the run is over, the first
\* group's file went through the pipeline with that profile, the surplus group
\* has a file that was never touched
C13_Witness ==
    /\ runPc = "exited" /\ recurse
    /\ inputDirs = {1, 2} /\ profileDirs = {1}
    /\ Created = {1} /\ tasks[1].input = 1 /\ tasks[1].profile = 1
    /\ files[1] > 0 /\ touched[1] = files[1]
    /\ files[2] > 0 /\ touched[2] = 0

\* the tasks whose browser is launched and not closed
OpenBrowsers == {i \in Dirs : tasks[i].browserForPair = "open"}

\* C14: in paired mode the number of tasks that have launched a browser and
\* not yet closed it never exceeds options.concurrency, nor does the number of
\* tasks the limiter has started and that have not returned.
C14_BrowsersWithinConcurrency ==
    /\ Cardinality(OpenBrowsers) <= concurrency
    /\ Cardinality(Active(tasks)) <= concurrency

\* C14 witness: two pairs with concurrency 1; the first task failed after its
\* browser was launched and has returned, the second has its browser open
C14_Witness ==
    /\ numPairs = 2 /\ concurrency = 1
    /\ tasks[1].pc = "done" /\ tasks[1].failed /\ tasks[1].browserForPair = "closed"
    /\ tasks[2].browserForPair = "open"

\* the sum of field f of the pair summaries of all tasks
RECURSIVE FieldSum(_, _)
FieldSum(f, n) == IF n = 0 THEN 0 ELSE tasks[n].pairResult[f] + FieldSum(f, n - 1)

SummaryFields == {"processed", "skipped", "success", "failed", "submitErrors", "exifErrors"}

\* runRecursiveMode is past the aggregation of the results
Aggregated == recurse /\ numPairs > 0 /\ runPc \in {"r_finally", "finished", "exited"}

\* C15: a pair's failure never blocks or cancels another pair: while the tasks
\* run a step of a task or the aggregation is always possible, a failed task holds no slot once it has
\* returned, and when the results are aggregated every task has returned,
\* every task that did not fail has taken all the images of its directory
\* through the pipeline, every failed task's summary is all zeros, and all
\* summaries are in the aggregate.
C15_FailureIsolation ==
    /\ runPc = "r_await" => ENABLED (TaskNext \/ R_Aggregate)
    /\ \A i \in Created :
         tasks[i].failed => tasks[i].pairResult = ZeroSummary
    /\ Aggregated =>
         /\ \A i \in 1..numPairs :
              /\ tasks[i].pc = "done"
              /\ ~tasks[i].failed =>
                   /\ tasks[i].fileIndex = tasks[i].numFiles
                   /\ tasks[i].pairResult.processed + tasks[i].pairResult.skipped
                        = tasks[i].numFiles
         /\ \A f \in SummaryFields : aggregateSummary[f] = FieldSum(f, MaxDirs)

\* C15 witness: the first pair failed, the second pair then ran its image
\* through the pipeline, and the aggregate is the second pair's summary
C15_Witness ==
    /\ Aggregated /\ numPairs = 2
    /\ tasks[1].failed /\ tasks[1].pairResult = ZeroSummary
    /\ ~tasks[2].failed /\ tasks[2].pairResult.processed = 1
    /\ aggregateSummary = tasks[2].pairResult

\* C16: after all pair tasks have completed every field of the run-wide
\* summary is the sum of that field over the pair summaries, and that summary
\* is the one logged; before the aggregation the run-wide summary is all zeros.
C16_AggregateIsFieldwiseSum ==
    /\ Aggregated =>
         \A f \in SummaryFields : aggregateSummary[f] = FieldSum(f, MaxDirs)
    /\ (recurse /\ runPc \in {"finished", "exited"} /\ exitCode = 0)
         => logged = <<aggregateSummary>>
    /\ ~Aggregated => aggregateSummary = ZeroSummary

\* C16 witness: two pairs whose summaries both count a processed image, one of
\* them with a failed counter write
C16_Witness ==
    /\ Aggregated /\ numPairs = 2
    /\ tasks[1].pairResult.processed = 1 /\ tasks[2].pairResult.processed = 1
    /\ tasks[1].pairResult.exifErrors = 1 /\ tasks[2].pairResult.success = 1
    /\ aggregateSummary.processed = 2 /\ aggregateSummary.exifErrors = 1

\* C17: every paired-mode task is torn down before it returns and frees its
\* slot, whether it failed or not: a task that has returned has no open
\* browser and no live ExifWriter, and as long as its browser is open or its
\* ExifWriter is live the task holds its slot.
C17_TeardownBeforeReturn ==
    \A i \in Dirs :
        /\ tasks[i].pc = "done" =>
             /\ tasks[i].browserForPair \in {Null, "closed"}
             /\ tasks[i].exifWriterForPair \in {Null, "ended"}
        /\ (tasks[i].browserForPair = "open" \/ tasks[i].exifWriterForPair = "live")
             => i \in Active(tasks)
        /\ tasks[i].pc = "cleanup" => tasks[i].browserForPair \in {Null, "closed"}

\* C17 witness: a task that failed after the launch and a task that ran its
\* batch have both returned, each with its browser closed and its ExifWriter
\* ended
C17_Witness ==
    /\ numPairs = 2
    /\ tasks[1].pc = "done" /\ tasks[1].failed
    /\ tasks[1].browserForPair = "closed" /\ tasks[1].exifWriterForPair = "ended"
    /\ tasks[2].pc = "done" /\ ~tasks[2].failed /\ tasks[2].pairResult.processed = 1
    /\ tasks[2].browserForPair = "closed" /\ tasks[2].exifWriterForPair = "ended"

\* the units whose adapter call has started and not returned
CallsInFlight == {u \in Units : rec[u].invoked = 1 /\ ~rec[u].returned}

\* C18: within one session the units are taken in list order, one at a time:
\* the adapter call for a unit starts only when every unit before it was
\* visited and the call of the unit before it, if it had one, has returned,
\* and at most one call is in flight; in a paired session the images taken so
\* far are the first fileIndex of the directory; and runRecursiveMode
\* aggregates only when every task has returned.
C18_SequentialUnitsThenAggregate ==
    /\ Cardinality(CallsInFlight) <= 1
    /\ \A u \in Units :
         (rec[u].invoked = 1 /\ u > 1)
         => /\ Visited(u - 1)
            /\ rec[u - 1].invoked = 1 => rec[u - 1].returned
    /\ \A i \in Created :
         /\ tasks[i].fileIndex <= tasks[i].numFiles
         /\ touched[tasks[i].input] = tasks[i].fileIndex
    /\ Aggregated => \A i \in 1..numPairs : tasks[i].pc = "done"

\* C18 witness: the results are aggregated after a session that took two
\* images through the pipeline and a session that found none
C18_Witness ==
    /\ Aggregated /\ numPairs = 2
    /\ \E i \in 1..numPairs : tasks[i].fileIndex = 2 /\ tasks[i].pairResult.processed = 2
    /\ \A i \in 1..numPairs : tasks[i].pc = "done"

\* C19: Manager.run always emits the run summary before it returns, in single
\* and in paired mode, on every path: once run has returned exactly one
\* summary was logged, it is the summary of the mode, and before run returns
\* some step is always possible (while runRecursiveMode waits for its tasks
\* that is C15).
C19_SummaryAlwaysLogged ==
    /\ Len(logged) <= 1
    /\ (runPc = "finished" \/ (runPc = "exited" /\ exitCode = 0)) =>
         /\ Len(logged) = 1
         /\ logged[1] = IF recurse THEN aggregateSummary ELSE resultSummary
    /\ runPc \notin {"exited", "r_await"} => ENABLED RunNext

\* C19 witness: paired mode found input groups but no profile, so no pair;
\* run has returned and the all-zero summary was logged
C19_Witness ==
    /\ runPc = "finished" /\ recurse
    /\ inputSubDirs # <<>> /\ profileDirs = {} /\ numPairs = 0
    /\ logged = <<ZeroSummary>>

\* C20: process.exitCode is set only by the catch around the construction of
\* FileManager, ExifWriter and Manager: from the call of Manager.run on it
\* stays unset until the process ends, whatever fails in a unit, in a session
\* or in the discovery.
C20_NonzeroExitOnlyOnInitFailure ==
    /\ [](runPc \notin {"init", "exited"} => exitCode = 0)
    /\ [][exitCode' # exitCode => (runPc = "init" /\ runPc' = "exited")]_vars

\* C20 witness: the process has ended with exit code 0 after a paired run in
\* which one session failed and another counted a submit error
C20_Witness ==
    /\ runPc = "exited" /\ exitCode = 0 /\ recurse /\ numPairs = 2
    /\ \E i \in 1..numPairs : tasks[i].failed
    /\ aggregateSummary.submitErrors > 0

----------------------------------------------------------------------------
\* C21: retry is gated on the gate timeout alone. A call of the handler whose
\* first attempt failed because the page was not ready or with any other
\* error (upload, prompt entry, click, a failure of the gate step that is not
\* the timeout) has made exactly one attempt, has never reloaded the page and
\* has not clicked submit, and what it returns says the unit was not submitted.
C21_RetryOnlyOnGateTimeout ==
    call.firstErr \in {"NotReady", "Other"} =>
        /\ call.attempts = 1
        /\ call.reloads = 0
        /\ ~call.clicked
        /\ pc = "result" =>
             /\ attemptResult.submitted # True
             /\ platform = "chatgpt" => attemptResult.submitted = False

\* a ChatGPT call returned after a failure in the gate step that was not the timeout
C21_Witness ==
    /\ pc = "result"
    /\ platform = "chatgpt"
    /\ call.firstErr = "Other"
    /\ call.steps = <<"guard", "upload", "prompt", "gate">>
    /\ attemptResult.submitted = False

----------------------------------------------------------------------------
\* the steps of one attempt of the ChatGPT handler, in the order of the code
\* (part_002 54-83, part_003 191-234)
AttemptOrder == <<"guard", "upload", "prompt", "gate", "determine", "click">>

IsPrefix(a, b) == Len(a) <= Len(b) /\ SubSeq(b, 1, Len(a)) = a

\* the statements of ChatGptHandler.processImage and of the service it calls
InChatGptHandler ==
    pc \in {"c_guard", "c_ready", "c_upload", "c_prompt", "c_gate", "c_check",
            "c_click", "c_catch", "c_return"}

\* C22: on a retry the reload has completed before the second attempt begins,
\* and the second attempt runs the guard, the upload and the prompt entry
\* again, for the same unit, before it waits for the gate. When the reload
\* itself fails there is no second attempt and the call returns not submitted,
\* with the status of the previous unit false.
C22_ReloadThenFreshAttempt ==
    /\ call.attempts = 2 =>
         /\ call.reloads = 1 /\ ~call.reloadFailed
         /\ call.firstErr = "GateTimeout"
         /\ IsPrefix(call.steps, AttemptOrder)
         /\ pc = "c_ready" => call.steps = <<"guard">>
         /\ pc = "c_upload" => call.steps = <<"guard">>
         /\ pc = "c_prompt" => call.steps = <<"guard", "upload">>
         /\ pc = "c_gate" => call.steps = <<"guard", "upload", "prompt">>
         /\ InChatGptHandler =>
              /\ rec[currentImagePath].invoked = 1
              /\ ~rec[currentImagePath].returned
    /\ call.reloadFailed =>
         /\ call.attempts = 1 /\ call.reloads = 1
         /\ pc \in {"c_return", "result", "pace"}
         /\ pc = "c_return" => submitted = False /\ successStatusOfPrevious = False
         /\ pc \in {"result", "pace"} => attemptResult = ChatGptResult(False, False)

\* the second attempt, after the reload, has uploaded and entered the prompt
\* again and waits for the gate
C22_Witness ==
    /\ pc = "c_gate"
    /\ call.attempts = 2
    /\ call.reloads = 1
    /\ call.steps = <<"guard", "upload", "prompt">>

----------------------------------------------------------------------------
\* C23: in every attempt of the ChatGPT handler the steps are taken in the
\* order upload, prompt entry, wait for the enabled submit button, count of
\* the images in the latest response block (which gives the status of the
\* previous unit: true exactly when the count is above 0), submit click. An
\* attempt whose wait for the button timed out has determined no status and
\* has not clicked.
C23_AttemptStepOrder ==
    platform = "chatgpt" =>
        /\ IsPrefix(call.steps, AttemptOrder)
        /\ Len(call.steps) >= 5 <=> call.count >= 0
        /\ pc = "c_click" => successOfPrevious = JsBool(call.count > 0)
        /\ call.clicked =>
             /\ call.steps = AttemptOrder
             /\ pc = "c_return" => successStatusOfPrevious = JsBool(call.count > 0)
             /\ pc \in {"result", "pace"} =>
                  attemptResult = ChatGptResult(True, JsBool(call.count > 0))
        /\ call.lastErr = "GateTimeout" =>
             /\ call.steps = <<"guard", "upload", "prompt", "gate">>
             /\ call.count = -1
             /\ ~call.clicked

\* an attempt went through all its steps, found an image in the latest
\* response block and returned the status true
C23_Witness ==
    /\ pc = "result"
    /\ platform = "chatgpt"
    /\ call.clicked
    /\ call.count > 0
    /\ attemptResult.successStatusOfPrevious = True

----------------------------------------------------------------------------
\* C24: when handlePotentialCaptcha found a captcha element, paused and
\* re-probed the ready selectors, and they still did not appear within the
\* re-probe timeout, an error leaves the guard: it does not return normally.
C24_GuardPropagatesNotReady ==
    (call.guard.paused /\ call.guard.reprobe = "timeout") =>
        /\ call.guard.thrown
        /\ call.guard.returned = Null

----------------------------------------------------------------------------
\* C25: when the ready selectors won the race of handlePotentialCaptcha
\* against the captcha selectors, or both waits timed out, the guard goes on
\* without the long pause for manual solving.
C25_NoPauseWhenReadyWins ==
    call.guard.race \in {"ready", "timeout"} => ~call.guard.paused

----------------------------------------------------------------------------
\* C26: when the readiness check of an attempt fails (the ready selectors are
\* not visible after the bounded wait), that attempt performs no upload, no
\* prompt entry and no submit click, no reload and no further attempt follows,
\* and the handler returns a result that says not submitted, from which the
\* status kept for the counter write is false.
C26_NotReadyEndsTheCall ==
    call.lastErr = "NotReady" =>
        /\ call.steps = <<"guard">>
        /\ ~call.clicked
        /\ call.reloads = call.attempts - 1
        /\ pc \in {"c_return", "result", "pace"}
        /\ pc = "c_return" => submitted = False /\ successStatusOfPrevious = False
        /\ pc \in {"result", "pace"} =>
             /\ platform = "chatgpt" => attemptResult = ChatGptResult(False, False)
             /\ platform = "gemini" => attemptResult = GeminiResult(False)
             /\ StatusFromResult(attemptResult) = False
        /\ pc = "pace" => successStatusForPreviousImage = False

\* the ChatGPT handler returned after a readiness check that failed
C26_Witness ==
    /\ pc = "result"
    /\ platform = "chatgpt"
    /\ call.lastErr = "NotReady"
    /\ call.attempts = 1
    /\ attemptResult.submitted = False

----------------------------------------------------------------------------
\* the units whose counter write returned v
Written(v) == {u \in Units : rec[u].writes > 0 /\ rec[u].writeOk = v}

\* C27: a counter write that fails is tallied on its own. The step in which
\* incrementCounter returns false adds 1 to summary.exifErrors and leaves
\* success and failed (and the file's record) as they were, and the batch
\* goes on: with the readout of the current unit, or with the return after
\* the last one. So at any time exifErrors is the number of failed writes
\* and success + failed the number of writes that succeeded.
C27_WriteFailureTalliedSeparately ==
    /\ [](/\ summary.exifErrors = Cardinality(Written(False))
          /\ summary.success + summary.failed = Cardinality(Written(True)))
    /\ [][\A u \in Units :
            (rec'[u].writes = rec[u].writes + 1 /\ rec'[u].writeOk = False) =>
                /\ summary'.exifErrors = summary.exifErrors + 1
                /\ summary'.success = summary.success
                /\ summary'.failed = summary.failed
                /\ exif' = exif
                /\ pc' \in {"skipcheck", "done"}]_vars

\* the write for unit 1 failed, the one for unit 2 succeeded, and the batch
\* of three was carried through
C27_Witness ==
    /\ pc = "done"
    /\ numImages = 3
    /\ rec[1].writeOk = False
    /\ rec[2].writeOk = True
    /\ summary.exifErrors = 1
    /\ summary.processed = 3

----------------------------------------------------------------------------
\* C28: in paired mode no two sessions work on the counter record of the same
\* file. The tasks have pairwise different input directories, the image
\* files of a directory are handed to the pipeline of its own task only, and
\* each at most once; and the ExifWriter a task hands to its pipeline is an
\* instance of its own, neither the Manager's shared one nor that of another
\* task.
C28_SessionsShareNoFileNoStore ==
    /\ \A i \in Created : \A j \in Created :
         i # j =>
            /\ tasks[i].input # tasks[j].input
            /\ tasks[i].store = NoStore \/ tasks[i].store # tasks[j].store
    /\ \A i \in Created :
         /\ tasks[i].store # SharedStore
         /\ tasks[i].exifWriterForPair # Null <=> tasks[i].store # NoStore
         /\ tasks[i].pc = "batch" => tasks[i].exifWriterForPair = "live"
         /\ touched[tasks[i].input] = tasks[i].fileIndex
    /\ \A d \in Dirs : touched[d] <= files[d]

\* two sessions are in their pipelines at the same time, each has taken an
\* image of its own directory
C28_Witness ==
    /\ runPc = "r_await"
    /\ tasks[1].pc = "batch" /\ tasks[2].pc = "batch"
    /\ tasks[1].fileIndex = 1 /\ tasks[2].fileIndex = 1
    /\ tasks[1].store # tasks[2].store

----------------------------------------------------------------------------
\* runRecursiveMode has reached its finally block or is past it
RecursiveRunEnding ==
    /\ recurse
    /\ runPc = "r_finally" \/ (runPc \in {"finished", "exited"} /\ logged # <<>>)

\* task i asked for the image files of its directory and got none although
\* the directory has some: the directory could not be read
FilesNotFound(i) ==
    /\ tasks[i].pc \in {"batch", "close", "cleanup", "done"}
    /\ ~tasks[i].failed
    /\ tasks[i].numFiles < files[tasks[i].input]

\* C29 as stated: in paired mode no failure to enumerate directories or files
\* keeps the session of a pair from being created and run: when
\* runRecursiveMode ends, every pair of the directories on disk has had its
\* task, and the task has run to its end.
C29_DiscoveryFailureSparesOtherPairs ==
    (RecursiveRunEnding /\ PairCount > 0) =>
        /\ numPairs = PairCount
        /\ \A i \in 1..PairCount : tasks[i].pc = "done"

\* C29, amended: a failure to enumerate the image files of one pair's
\* directory ends that pair's session alone, with the all-zero summary and no
\* file touched, while every pair has its task and every other task takes all
\* its images through the pipeline. A failure to list the subdirectories of
\* the input root or of the profile root comes before any task exists: no
\* task is created, and the run ends with the all-zero summary logged and the
\* exit code unset.
C29_FileDiscoveryFailureIsLocal ==
    /\ \A i \in Created :
         FilesNotFound(i) =>
            /\ tasks[i].numFiles = 0 /\ tasks[i].fileIndex = 0
            /\ tasks[i].pairResult = ZeroSummary
            /\ touched[tasks[i].input] = 0
    /\ runPc = "r_await" => Created = 1..PairCount
    /\ Aggregated =>
         \A i \in 1..numPairs :
            /\ tasks[i].pc = "done"
            /\ (~tasks[i].failed /\ ~FilesNotFound(i)) =>
                 /\ tasks[i].fileIndex = files[tasks[i].input]
                 /\ tasks[i].pairResult.processed + tasks[i].pairResult.skipped
                      = files[tasks[i].input]
    /\ (RecursiveRunEnding /\ PairCount > 0 /\ numPairs = 0) =>
         /\ Created = {}
         /\ aggregateSummary = ZeroSummary
         /\ exitCode = 0
         /\ runPc # "r_finally" => logged = <<ZeroSummary>>

\* the directory of the first pair could not be read, the second pair took
\* its image through the pipeline, and the results are aggregated
C29_Witness ==
    /\ Aggregated /\ numPairs = 2
    /\ FilesNotFound(1) /\ tasks[1].pairResult = ZeroSummary
    /\ ~tasks[2].failed /\ tasks[2].pairResult.processed = 1

----------------------------------------------------------------------------
\* the loop body of unit u is over
BodyOver(u) == fileIndex > u \/ (fileIndex = u /\ pc \in {"loop", "done"})

\* C30 as stated: between any two consecutive units of the list exactly one
\* pacing delay elapses, and none after the last unit.
C30_OneDelayBetweenUnits ==
    \A u \in 1..numImages :
        /\ (u < numImages /\ fileIndex > u) => rec[u].delays = 1
        /\ u = numImages => rec[u].delays = 0

\* C30, amended: after a unit that was handed to the handler and is not the
\* last of the list the pipeline waits the pacing delay exactly once, before
\* it takes the next unit; after a unit that was skipped it does not wait,
\* and it does not wait after the last unit.
C30_DelayAfterProcessedUnits ==
    \A u \in 1..numImages :
        /\ rec[u].delays =
             IF rec[u].invoked = 1 /\ u < numImages /\ BodyOver(u) THEN 1 ELSE 0
        /\ rec[u].skipped > 0 => rec[u].delays = 0
        /\ rec[numImages].delays = 0

\* a batch of three is over: the first unit was skipped and no delay followed
\* it, the second was processed and one delay followed it, none followed the
\* last
C30_Witness ==
    /\ pc = "done" /\ numImages = 3
    /\ rec[1].skipped = 1 /\ rec[1].delays = 0
    /\ rec[2].invoked = 1 /\ rec[2].delays = 1
    /\ rec[3].invoked = 1 /\ rec[3].delays = 0

----------------------------------------------------------------------------
(* Termination *)

\* the program under a scheduler that runs a step whenever one stays
\* possible: each await of the code settles (every UI wait and every delay
\* has a timeout), and the event loop then resumes the function. The runs
\* start from the smaller inputs so that the search for a run that never
\* ends stays short.
FairRunInit ==
    /\ RunInit
    /\ numImages < MaxUnits
    /\ TotalFiles(files, MaxDirs) < MaxPairFiles

FairRunSpec == FairRunInit /\ [][RunNext]_vars /\ WF_vars(RunNext)

\* the pair tasks created by runRecursiveMode have all settled
PairsSettled == \A i \in Dirs : tasks[i].pc \in {"none", "done"}

\* C31: the run ends; a pipeline that was entered returns its summary; and
\* the aggregation step of paired mode is reached only with every pair task
\* started and finished, so that no pair is starved by the limit
C31_Termination ==
    /\ <>(runPc = "exited")
    /\ (pc = "loop") ~> (pc = "done")
    /\ [](runPc \in {"r_finally", "exited"} => PairsSettled)

C31_Witness ==
    /\ runPc = "exited"
    /\ recurse
    /\ concurrency = 1
    /\ Cardinality({i \in Dirs : tasks[i].pc = "done"}) >= 2
    /\ \E i \in Dirs : tasks[i].pc = "done" /\ tasks[i].fileIndex >= 1

----------------------------------------------------------------------------
(* The session start taken alone *)

\* the rest of the program while one of its parts is run alone: the process
\* has started in single mode and has done nothing yet
ProgramParked ==
    /\ recurse = FALSE
    /\ platform = "chatgpt" /\ skipIfCreated = TRUE /\ selectorsOk = TRUE
    /\ numImages = 0
    /\ concurrency = 1
    /\ inputDirs = {}
    /\ profileDirs = {}
    /\ files = [d \in Dirs |-> 0]
    /\ PipelineIdle
    /\ runPc = "init"
    /\ exitCode = 0
    /\ inputSubDirs = <<>>
    /\ userDataSubDirs = <<>>
    /\ numPairs = 0
    /\ tasks = [i \in Dirs |-> NoTask]
    /\ aggregateSummary = ZeroSummary
    /\ resultSummary = ZeroSummary
    /\ browser = "none"
    /\ sharedExifWriter = "none"
    /\ logged = <<>>
    /\ touched = [d \in Dirs |-> 0]

\* the variables of the program that its parts taken alone leave alone
programVars == <<platform, skipIfCreated, selectorsOk, numImages, managerVars, pc,
                 handlerVars, rec, call, runVars>>

\* a session is about to be started with any platform flag, any --url and
\* the default URLs of config.js or a configuration without one of them
SessionStartInit ==
    /\ ProgramParked
    /\ exif = [u \in Units |-> NoData]
    /\ CounterIdle
    /\ FactoryIdle
    /\ optPlatform \in PlatformFlags
    /\ optUrl \in Urls
    /\ optGeminiUrl \in {DefaultGeminiUrl, NoString}
    /\ optChatgptUrl \in {DefaultChatgptUrl, NoString}
    /\ handler = "none"
    /\ initialUrl = NoString
    /\ startPc = "getHandler"

\* gemini_service.js 394-395 and 489-490: getHandler, which throws when it
\* finds no handler, then newPage, which can fail
GetHandlerStep ==
    /\ startPc = "getHandler"
    /\ LET h == getHandler(optPlatform, optUrl, optGeminiUrl, optChatgptUrl)
       IN  IF h = "Error"
           THEN handler' = handler /\ startPc' = "thrown"
           ELSE /\ handler' = h
                /\ \E pageOk \in BOOLEAN :
                     startPc' = IF pageOk THEN "initialUrl" ELSE "thrown"
    /\ UNCHANGED <<optPlatform, optUrl, optGeminiUrl, optChatgptUrl, initialUrl>>
    /\ UNCHANGED <<programVars, exif, counterVars, factoryVars>>

\* gemini_service.js 400-401 and 492-493: the target URL; "Target URL not
\* defined." when there is none
InitialUrlStep ==
    /\ startPc = "initialUrl"
    /\ initialUrl' = InitialUrlOf(optUrl, optGeminiUrl, optChatgptUrl)
    /\ startPc' = IF TruthyString(initialUrl') THEN "goto" ELSE "thrown"
    /\ UNCHANGED <<optPlatform, optUrl, optGeminiUrl, optChatgptUrl, handler>>
    /\ UNCHANGED <<programVars, exif, counterVars, factoryVars>>

\* gemini_service.js 402 and 494: page.goto(initialUrl) settles
GotoStep ==
    /\ startPc = "goto"
    /\ \E ok \in BOOLEAN : startPc' = IF ok THEN "navigated" ELSE "thrown"
    /\ UNCHANGED <<optPlatform, optUrl, optGeminiUrl, optChatgptUrl, handler,
                   initialUrl>>
    /\ UNCHANGED <<programVars, exif, counterVars, factoryVars>>

SessionStartNext == GetHandlerStep \/ InitialUrlStep \/ GotoStep

SessionStartSpec == SessionStartInit /\ [][SessionStartNext]_vars

\* getHandler has returned or thrown
HandlerDecided == startPc # "getHandler" /\ startPc # "idle"

\* the surface a URL belongs to, by its host
IsGeminiUrl(u) == includes(toLowerCase(u.text), "gemini.google.com")
IsChatGptUrl(u) ==
    \/ includes(toLowerCase(u.text), "chatgpt.com")
    \/ includes(toLowerCase(u.text), "chat.openai.com")

\* C32: getHandler selects by the platform flag first ('gemini' or 'chatgpt'
\* in any letter case) whatever the URL is; with no platform flag it selects
\* by a substring of the URL; with a flag it does not recognise, or with no
\* flag and a URL of neither surface, it throws and no handler is returned
C32_PlatformFlagThenUrl ==
    HandlerDecided =>
        LET flag == IF optPlatform.given THEN toLowerCase(optPlatform.text) ELSE <<>>
            url == UrlOf(optUrl, optGeminiUrl, optChatgptUrl)
        IN  /\ flag = <<"gemini">> => handler = "GeminiHandler"
            /\ flag = <<"chatgpt">> => handler = "ChatGptHandler"
            /\ ~TruthyString(optPlatform) =>
                 /\ IsGeminiUrl(url) => handler = "GeminiHandler"
                 /\ ~IsGeminiUrl(url) /\ IsChatGptUrl(url) => handler = "ChatGptHandler"
                 /\ ~IsGeminiUrl(url) /\ ~IsChatGptUrl(url) =>
                      handler = "none" /\ startPc = "thrown"
            /\ TruthyString(optPlatform) /\ flag \notin {<<"gemini">>, <<"chatgpt">>} =>
                 handler = "none" /\ startPc = "thrown"

\* the flag, in capitals, wins over a URL of the other surface
C32_Witness ==
    /\ HandlerDecided
    /\ optPlatform = Str(<<"ChatGPT">>)
    /\ IsGeminiUrl(optUrl)
    /\ handler = "ChatGptHandler"

\* what yargs lets through (cli.js 28-34, 108-111): --platform is absent or
\* one of the choices
FromCli == optPlatform \in {NoString, Str(<<"gemini">>), Str(<<"chatgpt">>)}

\* C35: the handler of a session and the URL the session first navigates to
\* are of the same surface; stated here for the runs without --url under the
\* default URLs of config.js
C35_HandlerMatchesInitialUrl ==
    (/\ startPc = "navigated"
     /\ FromCli
     /\ optUrl = NoString
     /\ optGeminiUrl = DefaultGeminiUrl
     /\ optChatgptUrl = DefaultChatgptUrl)
    => /\ handler = "GeminiHandler" => IsGeminiUrl(initialUrl)
       /\ handler = "ChatGptHandler" => IsChatGptUrl(initialUrl)

----------------------------------------------------------------------------
(* The tallies of the summary *)

\* C33: when processImageBatch returns, success + failed + exifErrors equals
\* processed: every unit the handler was called for has exactly one call of
\* incrementCounter, tallied in exactly one of the three, and a skipped unit
\* has none
C33_TalliesSumToProcessed ==
    pc = "done" =>
        /\ summary.success + summary.failed + summary.exifErrors = summary.processed
        /\ \A u \in Units : rec[u].writes = rec[u].invoked

\* a batch with a skipped unit, a failed write and a tallied write
C33_Witness ==
    /\ pc = "done"
    /\ summary.skipped >= 1
    /\ summary.exifErrors >= 1
    /\ summary.success + summary.failed >= 1
    /\ summary.submitErrors >= 1

----------------------------------------------------------------------------
(* The result of ChatGptHandler.processImage *)

\* C34: ChatGptHandler.processImage never reports the previous unit as a
\* success unless the current unit was submitted: while it runs and in every
\* result it returns, submitted = false implies successStatusOfPrevious =
\* false
C34_NoSuccessWithoutSubmit ==
    platform = "chatgpt" =>
        /\ submitted = False => successStatusOfPrevious = False
        /\ \A u \in Units :
             (rec[u].returned /\ ~rec[u].result.thrown
              /\ rec[u].result.submitted = False)
             => rec[u].result.successStatusOfPrevious = False

\* the service saw the images of the previous unit, the click failed on the
\* retry after a gate timeout, and the result says false twice
C34_Witness ==
    /\ platform = "chatgpt"
    /\ pc = "result"
    /\ attemptResult = ChatGptResult(False, False)
    /\ call.firstErr = "GateTimeout"
    /\ call.lastErr = "Other"
    /\ call.count > 0

----------------------------------------------------------------------------
(* The ExifWriter instances of a run *)

\* C36: when the run of the CLI is over, cleanup has been called on every
\* ExifWriter that was constructed during it: the one runCli builds and the
\* one of each pair task
C36_EveryExifWriterCleanedUp ==
    runPc = "exited" =>
        /\ sharedExifWriter # "live"
        /\ \A i \in Dirs : tasks[i].exifWriterForPair # "live"

----------------------------------------------------------------------------
(* ExifWriter.incrementCounter taken alone (part_004 252-286) *)

\* the keys incrementCounter is called with: the two of the options and one
\* that is neither
Keys == {exifSuccessKey, exifFailedKey, "otherCount"}

\* line 253: keyToIncrement !== this.successKey && keyToIncrement !== this.failedKey
InvalidKey(key) == key # exifSuccessKey /\ key # exifFailedKey

\* files with no record or with the record of an earlier run
CounterInit ==
    /\ ProgramParked
    /\ NoSessionStart
    /\ FactoryIdle
    /\ CounterIdle
    /\ exif \in [Units -> {NoData, [successCount |-> StoredSuccess, failedCount |-> 0]}]

\* lines 252-261: an invalid key returns false at once; otherwise the record
\* of the file is read
IncrementBegin ==
    /\ increment.pc = "idle"
    /\ increment.calls < MaxCalls
    /\ \E filePath \in Units, keyToIncrement \in Keys :
         increment' =
             [pc |-> IF InvalidKey(keyToIncrement) THEN "idle" ELSE "read",
              file |-> filePath,
              key |-> keyToIncrement,
              before |-> exif[filePath],
              data |-> NoData,
              returned |-> IF InvalidKey(keyToIncrement) THEN False ELSE Null,
              calls |-> increment.calls + 1]
    /\ UNCHANGED <<programVars, exif, startVars, factoryVars>>

\* lines 261-266: _readAppDataInternal settles (null when the read failed);
\* merge over the defaults, increment the key
IncrementRead ==
    /\ increment.pc = "read"
    /\ \E readOk \in BOOLEAN :
         increment' =
             [increment EXCEPT
                 !.data = incrementedData(readAppDataInternal(increment.file, readOk),
                                          increment.key),
                 !.pc = "write"]
    /\ UNCHANGED <<programVars, exif, startVars, factoryVars>>

\* lines 275-285: exiftool.write settles; true when it succeeded, false when
\* it raised
IncrementWrite ==
    /\ increment.pc = "write"
    /\ \E writeOk \in BOOLEAN :
         /\ exif' = IF writeOk THEN [exif EXCEPT ![increment.file] = increment.data]
                    ELSE exif
         /\ increment' = [increment EXCEPT !.returned = JsBool(writeOk), !.pc = "idle"]
    /\ UNCHANGED <<programVars, startVars, factoryVars>>

CounterNext == IncrementBegin \/ IncrementRead \/ IncrementWrite

CounterSpec == CounterInit /\ [][CounterNext]_vars

\* the other of the two keys
OtherKey(key) == IF key = exifSuccessKey THEN exifFailedKey ELSE exifSuccessKey

\* C37: after a call of incrementCounter that returned true the stored count
\* of the key is one more than before the call and the other count is what
\* it was; no call leaves a stored count smaller than it found it, a call
\* whose read failed included; a call with a key that is neither of the two
\* returns false and writes nothing
C37_IncrementAddsOneNeverLoses ==
    (increment.pc = "idle" /\ increment.calls > 0) =>
        LET stored == exif[increment.file]
            before == increment.before
        IN  /\ stored.successCount >= before.successCount
            /\ stored.failedCount >= before.failedCount
            /\ InvalidKey(increment.key) =>
                 increment.returned = False /\ stored = before
            /\ (~InvalidKey(increment.key) /\ increment.returned = True) =>
                 /\ stored[increment.key] = before[increment.key] + 1
                 /\ stored[OtherKey(increment.key)] = before[OtherKey(increment.key)]

----------------------------------------------------------------------------
(* browser_factory.js taken alone (part_000) *)

\* the module is loaded: browser = null (line 8), nothing is launched
FactoryInit ==
    /\ ProgramParked
    /\ exif = [u \in Units |-> NoData]
    /\ NoSessionStart
    /\ CounterIdle
    /\ FactoryIdle

\* launchBrowser 18-46: return the existing browser when there is one,
\* otherwise start puppeteer.launch and wait for it
LaunchBrowserCall(c) ==
    /\ calls[c].pc = "idle"
    /\ calls' = [calls EXCEPT ![c] =
                    IF factoryBrowser # 0
                    THEN [pc |-> "idle", target |-> 0, result |-> "existing",
                          got |-> factoryBrowser]
                    ELSE [pc |-> "launching", target |-> 0, result |-> "none",
                          got |-> 0]]
    /\ UNCHANGED <<factoryBrowser, browsers>>
    /\ UNCHANGED <<programVars, exif, startVars, counterVars>>

\* launchBrowser 46-59: puppeteer.launch settles; the new browser is assigned
\* to the module-level reference and returned, or the error is thrown again
LaunchSettle(c) ==
    /\ calls[c].pc = "launching"
    /\ \/ \E b \in Browsers :
            /\ browsers[b] = "unborn"
            /\ browsers' = [browsers EXCEPT ![b] = "live"]
            /\ factoryBrowser' = b
            /\ calls' = [calls EXCEPT ![c] =
                            [pc |-> "idle", target |-> 0, result |-> "launched",
                             got |-> b]]
       \/ /\ calls' = [calls EXCEPT ![c] =
                          [pc |-> "idle", target |-> 0, result |-> "thrown", got |-> 0]]
          /\ UNCHANGED <<factoryBrowser, browsers>>
    /\ UNCHANGED <<programVars, exif, startVars, counterVars>>

\* launchBrowser 49-53: the 'disconnected' handler of a browser
Disconnected(b) ==
    /\ browsers[b] = "live"
    /\ browsers' = [browsers EXCEPT ![b] = "disconnected"]
    /\ factoryBrowser' = 0
    /\ UNCHANGED calls
    /\ UNCHANGED <<programVars, exif, startVars, counterVars>>

\* newPage 67-89: 'Browser not available' without a browser; otherwise the
\* page of browser.newPage, or its error
NewPageCall(c) ==
    /\ calls[c].pc = "idle"
    /\ \E pageOk \in BOOLEAN :
         calls' = [calls EXCEPT ![c] =
                      [pc |-> "idle", target |-> 0, got |-> 0,
                       result |-> IF factoryBrowser = 0 THEN "Browser not available"
                                  ELSE IF pageOk THEN "page" ELSE "thrown"]]
    /\ UNCHANGED <<factoryBrowser, browsers>>
    /\ UNCHANGED <<programVars, exif, startVars, counterVars>>

\* close 94-98: with a browser, start browser.close() and wait for it
CloseCall(c) ==
    /\ calls[c].pc = "idle"
    /\ calls' = [calls EXCEPT ![c] =
                    IF factoryBrowser # 0
                    THEN [pc |-> "closing", target |-> factoryBrowser,
                          result |-> "none", got |-> 0]
                    ELSE [pc |-> "idle", target |-> 0, result |-> "nothing", got |-> 0]]
    /\ UNCHANGED <<factoryBrowser, browsers>>
    /\ UNCHANGED <<programVars, exif, startVars, counterVars>>

\* close 98-105: browser.close() settles: the browser is closed, or close()
\* raised and the browser is as it was; the finally resets the reference
CloseSettle(c) ==
    /\ calls[c].pc = "closing"
    /\ \E closed \in BOOLEAN :
         /\ browsers' = IF closed /\ browsers[calls[c].target] = "live"
                        THEN [browsers EXCEPT ![calls[c].target] = "closed"]
                        ELSE browsers
         /\ calls' = [calls EXCEPT ![c] =
                         [pc |-> "idle", target |-> 0, got |-> 0,
                          result |-> IF closed THEN "closed" ELSE "closeFailed"]]
    /\ factoryBrowser' = 0
    /\ UNCHANGED <<programVars, exif, startVars, counterVars>>

FactoryNext ==
    \/ \E c \in Callers : LaunchBrowserCall(c)
    \/ \E c \in Callers : LaunchSettle(c)
    \/ \E b \in Browsers : Disconnected(b)
    \/ \E c \in Callers : NewPageCall(c)
    \/ \E c \in Callers : CloseCall(c)
    \/ \E c \in Callers : CloseSettle(c)

FactorySpec == FactoryInit /\ [][FactoryNext]_vars

\* C38: the module-level browser is non-null exactly while a browser the
\* factory launched is neither closed nor disconnected, and such a browser
\* is never dropped from the reference, whatever the interleaving of
\* launchBrowser, close and the disconnect events
C38_ReferenceIsTheLiveBrowser ==
    /\ \A b \in Browsers : browsers[b] = "live" => factoryBrowser = b
    /\ factoryBrowser # 0 => browsers[factoryBrowser] = "live"

====
